---- MODULE Spec2Model ----
(***************************************************************************)
(* Ingestion pipeline of nudge-repo: the Item state machine driven by the  *)
(* API (create_item, patch_item_text) and by K polling workers             *)
(* (requeue_stale_processing, claim_batch, process_item and the            *)
(* internal-error handler of _claim_and_process_batch), and the summary    *)
(* endpoint (create_item_summary) with its attempt log.                    *)
(*                                                                         *)
(* The database is PostgreSQL at READ COMMITTED (app/db.py sets no         *)
(* isolation level).  A session reads rows with SELECT, keeps the loaded   *)
(* values, and its UPDATE/INSERT statements are emitted by the flush of    *)
(* db.commit() (autoflush=False), so a transaction is a read step followed *)
(* by a commit step and other transactions may commit in between.  The     *)
(* unit of work emits an UPDATE only for the columns whose value differs   *)
(* from the loaded one.  Row locks exist only for SELECT ... FOR UPDATE    *)
(* SKIP LOCKED of claim_batch, held from the select to the commit.         *)
(***************************************************************************)
EXTENDS Integers, Sequences, FiniteSets, TLC

(* ---------------- bounds of the model ---------------- *)
MaxRows == 3
MaxBatch == 2
MaxRequests == 3
MaxLimit == 3
Workers == {"w1", "w2"}
Clients == {"c1", "c2"}
Users == {"u1", "u2"}

(* ---------------- program constants ---------------- *)
min_chars == 600
max_chars == 200000
max_bytes == 2000000
stale_processing_minutes == 15
max_attempts == 2
RETRYABLE_HTTP_STATUSES == {429, 500, 501, 502, 503, 504}
NON_RETRYABLE_4XX == (400..499) \ {408, 429}

(* Time is kept relative to the database clock: a row stores how long ago
   it was updated (now - updated_at), saturated just above the stale
   threshold, which is all that requeue_stale_processing compares. *)
TickMinutes == stale_processing_minutes + 1

ItemIds == {1, 2, 3}

ALLOWED_MODEL_KEYS == {"strong", "mid", "budget"}
llm_default_model_key == "mid"
MAX_INPUT_CHARS == 20000
WORD_CAP == 120

(* ---------------- values ---------------- *)
Range(s) == { s[k] : k \in 1..Len(s) }
Min(a, b) == IF a < b THEN a ELSE b
MaxOf(S) == IF S = {} THEN 0 ELSE CHOOSE m \in S : \A x \in S : x <= m

NoId == 0
NoStatus == 0
NoBody == -1
NoneText == [kind |-> "none", len |-> 0]
Text(k, n) == [kind |-> k, len |-> n]
\* Python truthiness of an Optional[str]
Truthy(t) == t.kind # "none" /\ t.len > 0
\* str.strip(): a text of kind "blank" is made of whitespace only
NoStrip(t) == t
Strip(t) == IF t.kind = "blank" THEN [t EXCEPT !.len = 0] ELSE t

ItemStatus == {"queued", "processing", "needs_user_text", "succeeded", "failed"}
ItemSourceType == {"url", "pasted_text"}
ItemFinalTextSource == {"extracted_from_url", "user_pasted_text"}

NoItem == [exists |-> FALSE, user_id |-> "none", status |-> "none",
           status_detail |-> "none", source_type |-> "none",
           requested_url |-> "none", final_text_source |-> "none",
           created_at |-> 0, idle_minutes |-> 0]
\* the columns of an item row that a session assigns after loading it
Cols(row) == [status |-> row.status, status_detail |-> row.status_detail,
              final_text_source |-> row.final_text_source]
NoContent == [exists |-> FALSE, user_pasted_text |-> NoneText,
              extracted_text |-> NoneText, canonical_text |-> NoneText]

(* ---------------- fetcher and extractor ---------------- *)
\* What the network can answer to one GET.  text_len is the length of the
\* readable text of the page, bytes the size of the body.
Response(kind, status, html, bytes, text_len) ==
    [kind |-> kind, status |-> status, html |-> html, bytes |-> bytes, text_len |-> text_len]

Responses ==
    { Response("invalid_url", NoStatus, TRUE, 0, 0),
      Response("timeout", NoStatus, TRUE, 0, 0),
      Response("request_error", NoStatus, TRUE, 0, 0),
      Response("exception", NoStatus, TRUE, 0, 0),
      Response("response", 503, TRUE, 10, 0),
      Response("response", 429, TRUE, 10, 0),
      Response("response", 408, TRUE, 10, 0),
      Response("response", 404, TRUE, 10, 0),
      Response("response", 200, FALSE, 1000, 0),
      Response("response", 200, TRUE, max_bytes + 1, 600),
      Response("response", 200, TRUE, 1000, 0),
      Response("response", 200, TRUE, 1000, 599),
      Response("response", 200, TRUE, 1000, 600),
      Response("response", 200, TRUE, max_bytes, max_chars + 1) }

\* one response of each class the retry policy distinguishes: retryable
\* fetch error, extraction error, success
ClassResponses ==
    { Response("response", 503, TRUE, 10, 0),
      Response("response", 200, TRUE, 1000, 599),
      Response("response", 200, TRUE, 1000, 600) }

\* HTTP statuses of a final response: the members and the borders of the sets
\* the classification names, and statuses outside them
HttpStatuses == {200, 204, 400, 404, 408, 429, 499, 500, 504, 505, 599}

\* an HTML page of readable length under each status
StatusResponses == { Response("response", s, TRUE, 1000, 600) : s \in HttpStatuses }

FetchResult(ok, status, body, code, retry) ==
    [ok |-> ok, http_status |-> status, body |-> body, error_code |-> code, retryable |-> retry]

fetch_url(r) ==
    CASE r.kind = "invalid_url" -> FetchResult(FALSE, NoStatus, NoBody, "invalid_url", FALSE)
      [] r.kind = "timeout" -> FetchResult(FALSE, NoStatus, NoBody, "timeout", TRUE)
      [] r.kind = "request_error" -> FetchResult(FALSE, NoStatus, NoBody, "connection_error", TRUE)
      [] r.kind = "exception" -> FetchResult(FALSE, NoStatus, NoBody, "unexpected_fetch_error", FALSE)
      [] OTHER ->
           IF r.status \in RETRYABLE_HTTP_STATUSES
           THEN FetchResult(FALSE, r.status, NoBody, "http_" \o ToString(r.status), TRUE)
           ELSE IF r.status \in NON_RETRYABLE_4XX
           THEN FetchResult(FALSE, r.status, NoBody, "http_" \o ToString(r.status), FALSE)
           ELSE IF r.status = 408
           THEN FetchResult(FALSE, r.status, NoBody, "timeout", TRUE)
           ELSE IF ~r.html
           THEN FetchResult(FALSE, r.status, NoBody, "non_html", FALSE)
           ELSE IF r.bytes > max_bytes
           THEN FetchResult(FALSE, r.status, NoBody, "max_bytes_exceeded", FALSE)
           ELSE FetchResult(TRUE, r.status, r.text_len, "none", FALSE)

\* (text, error_code) for a page whose readable text has n characters
extract_readable_text(n) ==
    IF n = 0 THEN [text |-> NoneText, error_code |-> "empty_extraction"]
    ELSE IF n < min_chars THEN [text |-> NoneText, error_code |-> "too_short"]
    ELSE IF n > max_chars THEN [text |-> Text("extracted", max_chars), error_code |-> "none"]
    ELSE [text |-> Text("extracted", n), error_code |-> "none"]

(* ---------------- state ---------------- *)
VARIABLES
    users,      \* table users: user id -> number of rows with that id
    auth,       \* per client: the request in flight inside get_current_user_id
    cfg,        \* the deployment: worker processes, API clients asking for
                \* summaries, WorkerConfig.batch_size, and the ids and network
                \* responses the run draws from
    items,      \* table items: id -> row
    content,    \* table item_content: item id -> row
    attempts,   \* table extraction_attempts: item id -> rows in insertion order
    wk,         \* per worker: position in _claim_and_process_batch and session state
    api,        \* the PATCH /items/{id}/text request in flight, with its session state
    summary_attempts,   \* table summary_attempts: rows in insertion order
    item_summaries,     \* table item_summaries: rows in insertion order
    sm,         \* per client: the POST /items/{id}/summary request in flight
    nreq,       \* number of summary requests received so far
    view        \* the last answer of GET /items and GET /items/{id}, as the client
                \* keeps it while it follows the cursors

sumvars == <<summary_attempts, item_summaries, sm, nreq, view>>
vars == <<cfg, users, auth, items, content, attempts, wk, api, summary_attempts, item_summaries, sm, nreq, view>>

IdleWorker == [pc |-> "idle", stale |-> <<>>, claimed |-> <<>>, idx |-> 1,
               loaded |-> Cols(NoItem), loaded_content |-> NoContent, attempt_no |-> 0,
               fetch |-> FetchResult(FALSE, NoStatus, NoBody, "none", FALSE)]

\* response: the status code of the last answer, where the deployment's
\* client keeps it (cfg.observe)
\* outcome: "returned" (the dependency returned user_id and the endpoint
\* runs), "HTTPException 400" or "IntegrityError" (unhandled: the request fails)
NoAuth == [pc |-> "none", user_id |-> "none", outcome |-> "none"]

NoRequest == [pc |-> "none", user_id |-> "none", item_id |-> NoId, pasted_text |-> NoneText,
              loaded |-> Cols(NoItem), loaded_content |-> NoContent, response |-> 0]

\* attempt_row: "none" (None), "persistent" (inserted by this session) or
\* "transient" (built but not in the table: its INSERT was rolled back)
NoSummaryRequest == [pc |-> "none", req |-> 0, user_id |-> "none", item_id |-> NoId,
                     asked |-> "none", model_key |-> "none", detail |-> "none",
                     input_chars_original |-> 0, truncated |-> NoneText,
                     attempt_no |-> 0, attempt_row |-> "none", response |-> 0]

\* a cursor is a string, here its sequence of tokens; None is the empty one
NoCursor == <<>>
NoView == [op |-> "none", user_id |-> "none", item_id |-> NoId, code |-> 0,
           detail |-> Cols(NoItem), limit |-> 0, cursor |-> NoCursor,
           rows |-> <<>>, next_cursor |-> NoCursor,
           acc |-> <<>>, walk |-> FALSE, n0 |-> 0]

\* users: the callers of the API; readers: those who call the GET routes;
\* pasted: the texts they paste; any_id: ids are drawn in any order (uuid4)
\* instead of ascending; observe: the API client keeps the responses
Deployment(workers, clients, ids, responses, batch_size) ==
    [workers |-> workers, clients |-> clients, ids |-> ids,
     responses |-> responses, batch_size |-> batch_size,
     users |-> {"u1"}, readers |-> {}, pasted |-> {Text("pasted", 1)},
     urls |-> {"none", "https://example.com/article"},
     outputs |-> {1}, any_id |-> FALSE, clock |-> TRUE, observe |-> FALSE,
     crashers |-> workers,
     crash_at |-> {"claim_select", "claim_commit", "process", "fetch", "wb_commit", "except", "except_commit"},
     timely |-> FALSE]

EmptyDb ==
    /\ users = [u \in Users |-> IF u \in cfg.users THEN 1 ELSE 0]
    /\ auth = [c \in Clients |-> NoAuth]
    /\ items = [i \in ItemIds |-> NoItem]
    /\ content = [i \in ItemIds |-> NoContent]
    /\ attempts = [i \in ItemIds |-> <<>>]
    /\ wk = [w \in Workers |-> IdleWorker]
    /\ api = NoRequest
    /\ summary_attempts = <<>>
    /\ item_summaries = <<>>
    /\ sm = [c \in Clients |-> NoSummaryRequest]
    /\ nreq = 0
    /\ view = NoView

\* K = 2 concurrent workers on one item
Init ==
    /\ cfg = Deployment(Workers, {}, {1}, ClassResponses, 1)
    /\ EmptyDb

\* one worker: either one item and every response of the fetcher, or
\* several items, one response of each class and every batch size
InitSeq ==
    /\ cfg \in { [d EXCEPT !.observe = TRUE] :
                    d \in { Deployment({"w1"}, {}, {1}, Responses, 1) }
                          \cup { Deployment({"w1"}, {}, {1, 2}, ClassResponses, b) : b \in 1..MaxBatch } }
    /\ EmptyDb

(* ---------------- database helpers ---------------- *)
\* the row lock of SELECT ... FOR UPDATE: held by a worker between the
\* select of claim_batch and the commit of its transaction
\* row locks that would be kept until the batch is processed
LockedUntilBatchEnd(i) == { w \in cfg.workers : wk[w].pc # "idle" /\ \E k \in 1..Len(wk[w].claimed) : wk[w].claimed[k] = i }
LockedBy(i) == { w \in cfg.workers : wk[w].pc = "claim_commit" /\ \E k \in 1..Len(wk[w].claimed) : wk[w].claimed[k] = i }
Locked(i) == LockedBy(i) # {}

AttemptNos(i) == { attempts[i][k].attempt_no : k \in 1..Len(attempts[i]) }

\* UNIQUE (item_id, attempt_no) on extraction_attempts: may the row be
\* inserted?
NoUniqueConstraint(i, attempt_no) == TRUE
uq_extraction_attempts_item_attempt_no(i, attempt_no) == attempt_no \notin AttemptNos(i)
NextAttemptNoSkipping(i) == MaxOf(AttemptNos(i)) + 2
\* select max(attempt_no) ... ; return (max or 0) + 1
_get_next_attempt_no(i) == MaxOf(AttemptNos(i)) + 1

\* unit of work: UPDATE of the columns that differ from the loaded values;
\* onupdate=func.now() sets updated_at = now when an UPDATE is emitted
Dirty(loaded, new) ==
    \/ new.status # loaded.status
    \/ new.status_detail # loaded.status_detail
    \/ new.final_text_source # loaded.final_text_source

\* a unit of work that would write back the status column only
FlushStatusOnly(row, loaded, new) ==
    IF new.status = loaded.status THEN row
    ELSE [row EXCEPT !.status = new.status, !.idle_minutes = 0]

Flush(row, loaded, new) ==
    IF ~Dirty(loaded, new) THEN row
    ELSE [row EXCEPT !.status = IF new.status # loaded.status THEN new.status ELSE @,
                     !.status_detail = IF new.status_detail # loaded.status_detail THEN new.status_detail ELSE @,
                     !.final_text_source = IF new.final_text_source # loaded.final_text_source THEN new.final_text_source ELSE @,
                     !.idle_minutes = 0]

(* ---------------- API ---------------- *)
FreeIds == { i \in cfg.ids : ~items[i].exists }

PastePathWheneverPasted(url, pasted_text, prefer_pasted_text) == Truthy(pasted_text)
\* body.pasted_text and (body.prefer_pasted_text or not body.url)
PastePath(url, pasted_text, prefer_pasted_text) ==
    Truthy(pasted_text) /\ (prefer_pasted_text \/ url = "none")

\* POST /items; the id is a uuid4: where only its identity matters ids are
\* handed out in ascending order, else (cfg.any_id) in any order
create_item(user_id, url, pasted_text, prefer_pasted_text, created_at) ==
    /\ FreeIds # {}
    /\ url # "none" \/ Truthy(pasted_text)
    /\ \E id \in FreeIds :
       /\ cfg.any_id \/ \A j \in FreeIds : id <= j
       /\ IF PastePath(url, pasted_text, prefer_pasted_text)
          THEN /\ items' = [items EXCEPT ![id] =
                       [exists |-> TRUE, user_id |-> user_id, status |-> "succeeded",
                        status_detail |-> "none", source_type |-> "pasted_text",
                        requested_url |-> "none", final_text_source |-> "user_pasted_text",
                        created_at |-> created_at, idle_minutes |-> 0]]
               /\ content' = [content EXCEPT ![id] =
                       [exists |-> TRUE, user_pasted_text |-> pasted_text,
                        extracted_text |-> NoneText, canonical_text |-> pasted_text]]
          ELSE /\ items' = [items EXCEPT ![id] =
                       [exists |-> TRUE, user_id |-> user_id, status |-> "queued",
                        status_detail |-> "none", source_type |-> "url",
                        requested_url |-> url, final_text_source |-> "none",
                        created_at |-> created_at, idle_minutes |-> 0]]
               /\ content' = [content EXCEPT ![id] =
                       [exists |-> TRUE, user_pasted_text |-> pasted_text,
                        extracted_text |-> NoneText, canonical_text |-> NoneText]]
    /\ UNCHANGED <<cfg, users, auth, attempts, wk, api, sumvars>>

\* created_at = now(): later than every existing row, or equal to the
\* latest one when two requests start in the same instant
LatestCreated == MaxOf({ items[i].created_at : i \in ItemIds })

CreateItem ==
    \E u \in cfg.users, url \in cfg.urls,
       p \in {NoneText} \cup cfg.pasted, prefer \in BOOLEAN,
       created_at \in {LatestCreated, LatestCreated + 1} :
        /\ created_at >= 1
        /\ create_item(u, url, p, prefer, created_at)

\* the request record after the answer was sent
Answer(user_id, id, pasted_text, code) ==
    IF cfg.observe
    THEN [NoRequest EXCEPT !.user_id = user_id, !.item_id = id,
                           !.pasted_text = pasted_text, !.response = code]
    ELSE NoRequest

\* PATCH /items/{id}/text: the SELECT of the item (scoped by user), the
\* status check and the lazy load of item.content
PatchRead(user_id, id, pasted_text) ==
    /\ api.pc = "none"
    /\ IF ~items[id].exists \/ items[id].user_id # user_id
       THEN api' = Answer(user_id, id, pasted_text, 404)
       ELSE IF items[id].status # "needs_user_text"
       THEN api' = Answer(user_id, id, pasted_text, 409)
       ELSE api' = [pc |-> "patch_commit", user_id |-> user_id, item_id |-> id,
                    pasted_text |-> pasted_text,
                    loaded |-> Cols(items[id]), loaded_content |-> content[id], response |-> 0]
    /\ UNCHANGED <<cfg, users, auth, items, content, attempts, wk, sumvars>>

\* a patch that would set the status and leave final_text_source alone
PatchAssignedStatusOnly(loaded) ==
    [loaded EXCEPT !.status = "succeeded", !.status_detail = "none"]

PatchAssigned(loaded) ==
    [loaded EXCEPT !.final_text_source = "user_pasted_text", !.status = "succeeded",
                   !.status_detail = "none"]

\* db.commit() of the patch
PatchCommit ==
    /\ api.pc = "patch_commit"
    /\ LET id == api.item_id IN
         /\ ~Locked(id)
         /\ items' = [items EXCEPT ![id] = Flush(@, api.loaded, PatchAssigned(api.loaded))]
         /\ content' = [content EXCEPT ![id] =
                [@ EXCEPT !.exists = TRUE,
                          !.user_pasted_text = IF ~api.loaded_content.exists
                                                  \/ api.loaded_content.user_pasted_text # api.pasted_text
                                               THEN api.pasted_text ELSE @,
                          !.canonical_text = IF ~api.loaded_content.exists
                                                \/ api.loaded_content.canonical_text # api.pasted_text
                                             THEN api.pasted_text ELSE @]]
    /\ api' = Answer(api.user_id, api.item_id, api.pasted_text, 200)
    /\ UNCHANGED <<cfg, users, auth, attempts, wk, sumvars>>

patch_item_text ==
    \/ \E u \in cfg.users, id \in ItemIds : PatchRead(u, id, Text("patched", 1))
    \/ PatchCommit

\* the worker has claimed the item and not yet finished with it
Owner(w, i) ==
    /\ wk[w].pc \in {"process", "fetch", "wb_commit", "except", "except_commit"}
    /\ \E k \in wk[w].idx..Len(wk[w].claimed) : wk[w].claimed[k] = i

\* more than the stale threshold passes.  Where stale_processing_minutes is
\* set above the worst-case processing time (cfg.timely), it does not pass
\* for an item that a running worker holds.
Tick ==
    /\ cfg.clock
    /\ \E i \in ItemIds : items[i].exists /\ items[i].idle_minutes < TickMinutes
    /\ items' = [i \in ItemIds |->
                    IF items[i].exists /\ ~(cfg.timely /\ \E w \in cfg.workers : Owner(w, i))
                    THEN [items[i] EXCEPT !.idle_minutes = Min(@ + TickMinutes, TickMinutes)]
                    ELSE items[i]]
    /\ UNCHANGED <<cfg, users, auth, content, attempts, wk, api, sumvars>>

(* ---------------- worker: _claim_and_process_batch, transaction 1 ---------------- *)

\* requeue_stale_processing: the SELECT.  The loaded rows stay in the
\* session with status/status_detail assigned; the UPDATE is emitted by
\* the commit of the transaction.
StaleRowsAnyAge(threshold) ==
    { i \in ItemIds : items[i].exists /\ items[i].status = "processing" }

\* updated_at < now - threshold  <=>  now - updated_at > threshold
StaleRows(threshold) ==
    { i \in ItemIds : items[i].exists /\ items[i].status = "processing"
                      /\ items[i].idle_minutes > threshold }

requeue_stale_processing(w) ==
    /\ wk[w].pc = "idle"
    /\ LET stale_items == StaleRows(stale_processing_minutes) IN
       wk' = [wk EXCEPT ![w] = [IdleWorker EXCEPT !.pc = "claim_select",
                                   !.stale = [i \in stale_items |-> Cols(items[i])]]]
    /\ UNCHANGED <<cfg, users, auth, items, content, attempts, api, sumvars>>

\* claim_batch: SELECT ... WHERE status=queued AND source_type=url
\* ORDER BY created_at ASC FOR UPDATE SKIP LOCKED LIMIT batch_size
\* the SELECT without SKIP LOCKED awareness of rows
\* another claim transaction holds
ClaimableIgnoringLocks(i) ==
    /\ items[i].exists
    /\ items[i].status = "queued"
    /\ items[i].source_type = "url"

Claimable(i) ==
    /\ items[i].exists
    /\ items[i].status = "queued"
    /\ items[i].source_type = "url"
    /\ ~Locked(i)

BatchesUnordered(batch_size) ==
    LET cand == { i \in ItemIds : Claimable(i) }
        n == Min(batch_size, Cardinality(cand))
    IN { s \in [1..n -> cand] : \A a, b \in 1..n : a < b => s[a] # s[b] }

\* the batches the SELECT can return: oldest first, rows of equal
\* created_at in any order
Batches(batch_size) ==
    LET cand == { i \in ItemIds : Claimable(i) }
        n == Min(batch_size, Cardinality(cand))
    IN { s \in [1..n -> cand] :
           /\ \A a, b \in 1..n : a < b => s[a] # s[b] /\ items[s[a]].created_at <= items[s[b]].created_at
           /\ \A a \in 1..n : \A j \in cand \ Range(s) : items[s[a]].created_at <= items[j].created_at }

claim_batch(w) ==
    /\ wk[w].pc = "claim_select"
    /\ \E s \in Batches(cfg.batch_size) :
         wk' = [wk EXCEPT ![w].pc = "claim_commit", ![w].claimed = s]
    /\ UNCHANGED <<cfg, users, auth, items, content, attempts, api, sumvars>>

\* db.commit() of transaction 1: the flush writes, for every loaded row,
\* the columns whose last assigned value differs from the loaded value.
\* A row loaded by the stale sweep keeps its loaded values when the claim
\* query returns it again (no populate_existing).
ClaimLoaded(w, i) == IF i \in DOMAIN wk[w].stale THEN wk[w].stale[i] ELSE Cols(items[i])
ClaimAssigned(w, i) ==
    IF i \in Range(wk[w].claimed)
    THEN [ClaimLoaded(w, i) EXCEPT !.status = "processing", !.status_detail = "processing"]
    ELSE [ClaimLoaded(w, i) EXCEPT !.status = "queued", !.status_detail = "requeued after stale processing"]
ClaimFlushRow(w, i) == Flush(items[i], ClaimLoaded(w, i), ClaimAssigned(w, i))

ClaimCommit(w) ==
    /\ wk[w].pc = "claim_commit"
    /\ LET touched == DOMAIN wk[w].stale \cup Range(wk[w].claimed) IN
         /\ \A i \in touched : Dirty(ClaimLoaded(w, i), ClaimAssigned(w, i)) => LockedBy(i) \subseteq {w}
         /\ items' = [i \in ItemIds |-> IF i \in touched THEN ClaimFlushRow(w, i) ELSE items[i]]
    /\ wk' = [wk EXCEPT ![w] = IF Len(wk[w].claimed) = 0 THEN IdleWorker
                                ELSE [@ EXCEPT !.pc = "process", !.stale = <<>>, !.idx = 1]]
    /\ UNCHANGED <<cfg, users, auth, content, attempts, api, sumvars>>

\* a session of the worker is between its first statement and the end of
\* its with block: the claim transaction, the write-back session, the
\* session of the except branch
OpenTransaction(w) == wk[w].pc \in {"claim_select", "claim_commit", "wb_commit", "except_commit"}

(* ---------------- worker: process_item ---------------- *)
CurItem(w) == wk[w].claimed[wk[w].idx]

\* the loop "for item_id in claimed_ids" moves on; after the last item the
\* tick is over
Advance(w) ==
    IF wk[w].idx >= Len(wk[w].claimed) THEN IdleWorker
    ELSE [IdleWorker EXCEPT !.pc = "process", !.claimed = wk[w].claimed, !.idx = wk[w].idx + 1]

Attempt(no, result, code, status) ==
    [attempt_no |-> no, result |-> result, error_code |-> code, http_status |-> status]

MissingLinkAttemptUncoded(attempt_no) == Attempt(attempt_no, "error", "none", NoStatus)
\* ExtractionAttempt(result="error", error_code="missing_link", http_status=None)
MissingLinkAttempt(attempt_no) == Attempt(attempt_no, "error", "missing_link", NoStatus)

SkipsUnlessUrl(item) == ~item.exists \/ item.source_type # "url"
\* the three early returns of the read check
Skips(item) == ~item.exists \/ item.source_type # "url" \/ item.status # "processing"

\* first session of process_item: the read check, and the missing-link
\* outcome which it commits itself
ReadCheck(w) ==
    /\ wk[w].pc = "process"
    /\ LET id == CurItem(w)
           item == items[id]
       IN IF Skips(item)
          THEN /\ wk' = [wk EXCEPT ![w] = Advance(w)]
               /\ UNCHANGED <<items, attempts, sumvars>>
          ELSE IF item.requested_url = "none"
          THEN /\ Len(attempts[id]) < MaxRows
               /\ attempts' = [attempts EXCEPT ![id] =
                      Append(@, MissingLinkAttempt(_get_next_attempt_no(id)))]
               /\ items' = [items EXCEPT ![id] = Flush(item, Cols(item),
                      [Cols(item) EXCEPT !.status = "needs_user_text", !.status_detail = "paste_instead"])]
               /\ wk' = [wk EXCEPT ![w] = Advance(w)]
          ELSE /\ wk' = [wk EXCEPT ![w].pc = "fetch"]
               /\ UNCHANGED <<items, attempts, sumvars>>
    /\ UNCHANGED <<cfg, users, auth, content, api, sumvars>>

\* The fetcher returns (network fetch + extraction run with no session
\* open), then the write-back session issues its SELECTs (item,
\* max(attempt_no), content).  The response is an input no other process
\* observes, so it is drawn when the fetch returns.
Extracted(fetch) ==
    IF fetch.ok /\ fetch.body # NoBody
    THEN extract_readable_text(fetch.body)
    ELSE [text |-> NoneText, error_code |-> "none"]

FetchAndWriteBackRead(w) ==
    /\ wk[w].pc = "fetch"
    /\ LET id == CurItem(w) IN
       \E r \in cfg.responses :
         IF ~items[id].exists
         THEN wk' = [wk EXCEPT ![w] = Advance(w)]
         ELSE wk' = [wk EXCEPT ![w].pc = "wb_commit", ![w].fetch = fetch_url(r),
                               ![w].loaded = Cols(items[id]),
                               ![w].loaded_content = content[id],
                               ![w].attempt_no = _get_next_attempt_no(id)]
    /\ UNCHANGED <<cfg, users, auth, items, content, attempts, api, sumvars>>

\* the retry rule with the comparison attempt_no <= max_attempts
OutcomeOffByOne(loaded, fetch, text, extraction_error_code, attempt_no) ==
    IF fetch.ok /\ Truthy(text)
    THEN [result |-> "success", error_code |-> "none",
          item |-> [loaded EXCEPT !.final_text_source = "extracted_from_url",
                                  !.status = "succeeded", !.status_detail = "none"]]
    ELSE LET error_code == IF fetch.ok
                           THEN (IF extraction_error_code # "none" THEN extraction_error_code
                                 ELSE "extraction_failed")
                           ELSE fetch.error_code
             retryable == IF fetch.ok THEN FALSE ELSE fetch.retryable
         IN IF retryable /\ attempt_no <= max_attempts
            THEN [result |-> "error", error_code |-> error_code,
                  item |-> [loaded EXCEPT !.status = "queued",
                                          !.status_detail = "retrying: " \o error_code]]
            ELSE [result |-> "error", error_code |-> error_code,
                  item |-> [loaded EXCEPT !.status = "needs_user_text",
                                          !.status_detail = "open_and_paste"]]

\* the outcome process_item assigns to the loaded item
Outcome(loaded, fetch, text, extraction_error_code, attempt_no) ==
    IF fetch.ok /\ Truthy(text)
    THEN [result |-> "success", error_code |-> "none",
          item |-> [loaded EXCEPT !.final_text_source = "extracted_from_url",
                                  !.status = "succeeded", !.status_detail = "none"]]
    ELSE LET error_code == IF fetch.ok
                           THEN (IF extraction_error_code # "none" THEN extraction_error_code
                                 ELSE "extraction_failed")
                           ELSE fetch.error_code
             retryable == IF fetch.ok THEN FALSE ELSE fetch.retryable
         IN IF retryable /\ attempt_no < max_attempts
            THEN [result |-> "error", error_code |-> error_code,
                  item |-> [loaded EXCEPT !.status = "queued",
                                          !.status_detail = "retrying: " \o error_code]]
            ELSE [result |-> "error", error_code |-> error_code,
                  item |-> [loaded EXCEPT !.status = "needs_user_text",
                                          !.status_detail = "open_and_paste"]]

\* unit of work on item_content: INSERT when the row was missing, else
\* UPDATE of the columns that differ from the loaded values
FlushContentExtractedOnly(row, loaded, text) ==
    [row EXCEPT !.exists = TRUE,
                !.extracted_text = IF ~loaded.exists \/ loaded.extracted_text # text THEN text ELSE @]

FlushContent(row, loaded, text) ==
    [row EXCEPT !.exists = TRUE,
                !.extracted_text = IF ~loaded.exists \/ loaded.extracted_text # text THEN text ELSE @,
                !.canonical_text = IF ~loaded.exists \/ loaded.canonical_text # text THEN text ELSE @]

\* db.commit() of the write-back: INSERT of the attempt (unique on
\* (item_id, attempt_no)), UPDATE of item and content.  The INSERT needs a
\* key-share lock on the item row, so it waits for a claim that holds it.
WriteBackCommit(w) ==
    /\ wk[w].pc = "wb_commit"
    /\ LET id == CurItem(w)
           ex == Extracted(wk[w].fetch)
           out == Outcome(wk[w].loaded, wk[w].fetch, ex.text, ex.error_code, wk[w].attempt_no)
       IN /\ ~Locked(id)
          /\ IF ~uq_extraction_attempts_item_attempt_no(id, wk[w].attempt_no)
             THEN \* IntegrityError: rollback, the exception leaves process_item
                  /\ wk' = [wk EXCEPT ![w].pc = "except"]
                  /\ UNCHANGED <<items, content, attempts, sumvars>>
             ELSE /\ Len(attempts[id]) < MaxRows
                  /\ attempts' = [attempts EXCEPT ![id] =
                         Append(@, Attempt(wk[w].attempt_no, out.result, out.error_code, wk[w].fetch.http_status))]
                  /\ items' = [items EXCEPT ![id] = Flush(@, wk[w].loaded, out.item)]
                  /\ content' = IF out.result = "success"
                                THEN [content EXCEPT ![id] = FlushContent(@, wk[w].loaded_content, ex.text)]
                                ELSE content
                  /\ wk' = [wk EXCEPT ![w] = Advance(w)]
    /\ UNCHANGED <<cfg, users, auth, api, sumvars>>

\* the try blocks of _claim_and_process_batch: an exception raised by
\* process_item is caught by the except branch of the loop, one raised in
\* that branch by its inner try; the claim transaction is in no try block,
\* and run_forever has none
CaughtInLoopOnly(site) == site = "process_item"
Caught(site) == site \in {"process_item", "handler"}

\* where the worker is after an exception raised at the site: in the except
\* branch, at the next claimed id, or out of run_forever
Raise(w, site) ==
    IF ~Caught(site) THEN [IdleWorker EXCEPT !.pc = "dead"]
    ELSE IF site = "process_item" THEN [wk[w] EXCEPT !.pc = "except"]
    ELSE Advance(w)

\* the database fails the write-back (connection lost, server restart):
\* nothing is committed and the exception leaves process_item
WriteBackDbError(w) ==
    /\ wk[w].pc = "wb_commit"
    /\ wk' = [wk EXCEPT ![w] = Raise(w, "process_item")]
    /\ UNCHANGED <<cfg, users, auth, items, content, attempts, api, sumvars>>

(* ---------------- worker: except branch of _claim_and_process_batch ---------------- *)
\* an except branch that would record the attempt and leave the item alone
InternalErrorUnassigned(loaded) == loaded
\* item.status = failed; item.status_detail = "Internal error while processing."
InternalError(loaded) ==
    [loaded EXCEPT !.status = "failed", !.status_detail = "Internal error while processing."]

\* an attempt row of the except branch that would carry no error code
InternalErrorAttemptUncoded(attempt_no) == Attempt(attempt_no, "error", "none", NoStatus)
\* ExtractionAttempt(result="error", error_code="internal_error", http_status=None)
InternalErrorAttempt(attempt_no) == Attempt(attempt_no, "error", "internal_error", NoStatus)

HandlerRead(w) ==
    /\ wk[w].pc = "except"
    /\ LET id == CurItem(w) IN
       IF ~items[id].exists
       THEN wk' = [wk EXCEPT ![w] = Advance(w)]
       ELSE wk' = [wk EXCEPT ![w].pc = "except_commit", ![w].loaded = Cols(items[id]),
                             ![w].attempt_no = _get_next_attempt_no(id)]
    /\ UNCHANGED <<cfg, users, auth, items, content, attempts, api, sumvars>>

HandlerCommit(w) ==
    /\ wk[w].pc = "except_commit"
    /\ LET id == CurItem(w) IN
         /\ ~Locked(id)
         /\ IF ~uq_extraction_attempts_item_attempt_no(id, wk[w].attempt_no)
            THEN \* IntegrityError again: caught by the inner except, only logged
                 UNCHANGED <<items, attempts, sumvars>>
            ELSE /\ Len(attempts[id]) < MaxRows
                 /\ attempts' = [attempts EXCEPT ![id] =
                        Append(@, InternalErrorAttempt(wk[w].attempt_no))]
                 /\ items' = [items EXCEPT ![id] = Flush(@, wk[w].loaded, InternalError(wk[w].loaded))]
    /\ wk' = [wk EXCEPT ![w] = Advance(w)]
    /\ UNCHANGED <<cfg, users, auth, content, api, sumvars>>

\* the database fails the session of the except branch: logged only
HandlerDbError(w) ==
    /\ wk[w].pc \in {"except", "except_commit"}
    /\ wk' = [wk EXCEPT ![w] = Raise(w, "handler")]
    /\ UNCHANGED <<cfg, users, auth, items, content, attempts, api, sumvars>>

\* the database fails the claim transaction
ClaimDbError(w) ==
    /\ wk[w].pc \in {"claim_select", "claim_commit"}
    /\ wk' = [wk EXCEPT ![w] = Raise(w, "claim")]
    /\ UNCHANGED <<cfg, users, auth, items, content, attempts, api, sumvars>>

\* the worker process dies and is restarted; an open transaction is
\* rolled back with the connection
Crash(w) ==
    /\ w \in cfg.crashers
    /\ wk[w].pc \in cfg.crash_at
    /\ wk' = [wk EXCEPT ![w] = IdleWorker]
    /\ UNCHANGED <<cfg, users, auth, items, content, attempts, api, sumvars>>

_claim_and_process_batch(w) ==
    \/ requeue_stale_processing(w)
    \/ claim_batch(w)
    \/ ClaimCommit(w)
    \/ ReadCheck(w)
    \/ FetchAndWriteBackRead(w)
    \/ WriteBackCommit(w)
    \/ HandlerRead(w)
    \/ HandlerCommit(w)

Next ==
    \/ CreateItem
    \/ patch_item_text
    \/ Tick
    \/ \E w \in cfg.workers : _claim_and_process_batch(w)
    \/ \E w \in cfg.workers : Crash(w)

NextSeq ==
    \/ Next
    \/ \E w \in cfg.workers : WriteBackDbError(w)

Spec == Init /\ [][Next]_vars
SpecSeq == InitSeq /\ [][NextSeq]_vars

\* two workers claiming from a queue of several url and pasted items, with
\* batches of one and of MaxBatch; every page answers 404
InitClaim ==
    /\ cfg \in { [Deployment(Workers, {}, ItemIds, {Response("response", 404, TRUE, 10, 0)}, b)
                     EXCEPT !.crashers = {}, !.clock = FALSE] : b \in 1..MaxBatch }
    /\ EmptyDb

NextClaim ==
    \/ CreateItem
    \/ \E w \in cfg.workers : _claim_and_process_batch(w)

SpecClaim == InitClaim /\ [][NextClaim]_vars

\* one worker fetching pages that answer with any of the statuses
InitFetch ==
    /\ cfg = Deployment({"w1"}, {}, {1}, StatusResponses, 1)
    /\ EmptyDb

SpecFetch == InitFetch /\ [][NextSeq]_vars

\* one worker whose process stays up, batches of two, and a database that
\* can fail any session of the worker
InitErr ==
    /\ cfg = [Deployment({"w1"}, {}, {1, 2},
                         {Response("response", 503, TRUE, 10, 0), Response("response", 200, TRUE, 1000, 600)},
                         MaxBatch)
                EXCEPT !.crashers = {}]
    /\ EmptyDb

NextErr ==
    \/ CreateItem
    \/ patch_item_text
    \/ Tick
    \/ \E w \in cfg.workers : _claim_and_process_batch(w)
    \/ \E w \in cfg.workers : WriteBackDbError(w)
    \/ \E w \in cfg.workers : HandlerDbError(w)
    \/ \E w \in cfg.workers : ClaimDbError(w)

SpecErr == InitErr /\ [][NextErr]_vars

\* a database that holds a queued url item without requested_url (the column
\* is nullable and carries no check constraint; such a row is written past
\* create_item, as the test suite writes its rows), and one worker
InitMissingUrl ==
    /\ cfg = [Deployment({"w1"}, {}, {1, 2}, ClassResponses, 1) EXCEPT !.crashers = {}]
    /\ users = [u \in Users |-> IF u \in cfg.users THEN 1 ELSE 0]
    /\ auth = [c \in Clients |-> NoAuth]
    /\ items = [i \in ItemIds |->
                  IF i = 1
                  THEN [NoItem EXCEPT !.exists = TRUE, !.user_id = "u1", !.status = "queued",
                                      !.source_type = "url", !.created_at = 1]
                  ELSE NoItem]
    /\ content = [i \in ItemIds |-> IF i = 1 THEN [NoContent EXCEPT !.exists = TRUE] ELSE NoContent]
    /\ attempts = [i \in ItemIds |-> << >>]
    /\ wk = [w \in Workers |-> IdleWorker]
    /\ api = NoRequest
    /\ summary_attempts = << >>
    /\ item_summaries = << >>
    /\ sm = [c \in Clients |-> NoSummaryRequest]
    /\ nreq = 0
    /\ view = NoView

SpecMissingUrl == InitMissingUrl /\ [][NextErr]_vars


(* ---------------- API: POST /items/{id}/summary ---------------- *)
\* The endpoint reads items and item_content and writes only
\* summary_attempts and item_summaries, which no other operation touches.
SummaryAttemptNos(i, model_key) ==
    { summary_attempts[k].attempt_no :
        k \in { j \in 1..Len(summary_attempts) :
                  summary_attempts[j].item_id = i /\ summary_attempts[j].model_key = model_key } }

uq_summary_attempts_item_attempt_no(i, model_key, attempt_no) ==
    \A k \in 1..Len(summary_attempts) :
        summary_attempts[k].item_id = i => summary_attempts[k].attempt_no # attempt_no

\* UNIQUE (item_id, model_key, attempt_no) on summary_attempts
uq_summary_attempts_item_model_attempt_no(i, model_key, attempt_no) ==
    attempt_no \notin SummaryAttemptNos(i, model_key)

SummaryAttemptStamped(r, status, finished, error_detail) ==
    [item_id |-> r.item_id, model_key |-> r.model_key, attempt_no |-> r.attempt_no,
     status |-> status, finished |-> TRUE, error_detail |-> error_detail, req |-> r.req]
SummaryAttempt(r, status, finished, error_detail) ==
    [item_id |-> r.item_id, model_key |-> r.model_key, attempt_no |-> r.attempt_no,
     status |-> status, finished |-> finished, error_detail |-> error_detail, req |-> r.req]

\* s[:n]
Slice(t, n) == [t EXCEPT !.len = Min(@, n)]

\* the model's answer is known by its number of words
_count_words(words) == words
NoTruncation(words, max_words) == words
_truncate_to_words(words, max_words) == IF words <= max_words THEN words ELSE max_words
\* (model_key or default).strip().lower()
StripLower(model_key) == IF model_key = " Strong " THEN "strong" ELSE model_key

ItemSummary(r, words) ==
    LET summary_text == IF _count_words(words) > WORD_CAP
                        THEN _truncate_to_words(words, WORD_CAP) ELSE words
    IN [item_id |-> r.item_id, model_key |-> r.model_key, req |-> r.req,
        input_chars_original |-> r.input_chars_original,
        input_chars_used |-> r.truncated.len,
        output_words |-> _count_words(summary_text)]

\* the request record after the answer was sent
Answered(r, code) ==
    IF cfg.observe
    THEN [NoSummaryRequest EXCEPT !.user_id = r.user_id, !.item_id = r.item_id,
                                  !.asked = r.asked, !.response = code]
    ELSE [NoSummaryRequest EXCEPT !.response = code]

Respond(c, code) == sm' = [sm EXCEPT ![c] = Answered(sm[c], code)]
Reject(c, user_id, id, model_key, code, detail) ==
    sm' = [sm EXCEPT ![c] =
            [Answered([user_id |-> user_id, item_id |-> id, asked |-> model_key], code)
                EXCEPT !.detail = IF cfg.observe THEN detail ELSE "none"]]

\* model_key validation, SELECT of the item, the status and canonical_text
\* checks, SELECT max(attempt_no) and the placeholder row added to the session
SummaryRead(c, user_id, id, model_key) ==
    /\ sm[c].pc = "none"
    /\ nreq < MaxRequests
    /\ nreq' = nreq + 1
    /\ LET effective_model_key == StripLower(IF model_key = "none" THEN llm_default_model_key ELSE model_key)
       IN IF effective_model_key \notin ALLOWED_MODEL_KEYS THEN Reject(c, user_id, id, model_key, 400, "Invalid model_key")
          ELSE IF ~items[id].exists \/ items[id].user_id # user_id THEN Reject(c, user_id, id, model_key, 404, "Item not found.")
          ELSE IF items[id].status # "succeeded" THEN Reject(c, user_id, id, model_key, 409, "Item is not in succeeded status.")
          ELSE IF \/ ~content[id].exists
                  \/ content[id].canonical_text.kind = "none"
                  \/ Strip(content[id].canonical_text).len = 0
          THEN Reject(c, user_id, id, model_key, 409, "Item has no canonical_text to summarize.")
          ELSE sm' = [sm EXCEPT ![c] =
                  [pc |-> "reserve_commit", req |-> nreq + 1,
                   user_id |-> IF cfg.observe THEN user_id ELSE "none", item_id |-> id,
                   asked |-> IF cfg.observe THEN model_key ELSE "none",
                   model_key |-> effective_model_key, detail |-> "none",
                   input_chars_original |-> content[id].canonical_text.len,
                   truncated |-> Slice(content[id].canonical_text, MAX_INPUT_CHARS),
                   attempt_no |-> MaxOf(SummaryAttemptNos(id, effective_model_key)) + 1,
                   attempt_row |-> "transient", response |-> 0]]
    /\ UNCHANGED <<cfg, users, auth, items, content, attempts, wk, api, summary_attempts, item_summaries, view>>

ReserveCommitUpsert(c) ==
    /\ sm[c].pc = "reserve_commit"
    /\ summary_attempts' =
          IF uq_summary_attempts_item_model_attempt_no(sm[c].item_id, sm[c].model_key, sm[c].attempt_no)
          THEN Append(summary_attempts, SummaryAttempt(sm[c], "failed", FALSE, "none"))
          ELSE [k \in 1..Len(summary_attempts) |->
                  IF /\ summary_attempts[k].item_id = sm[c].item_id
                     /\ summary_attempts[k].model_key = sm[c].model_key
                     /\ summary_attempts[k].attempt_no = sm[c].attempt_no
                  THEN SummaryAttempt(sm[c], "failed", FALSE, "none")
                  ELSE summary_attempts[k]]
    /\ sm' = [sm EXCEPT ![c].pc = "generate", ![c].attempt_row = "persistent"]
    /\ UNCHANGED <<cfg, users, auth, items, content, attempts, wk, api, item_summaries, nreq, view>>

\* db.commit() of the placeholder; on IntegrityError the except branch rolls
\* back, which expunges the pending row, and the request goes on
ReserveCommit(c) ==
    /\ sm[c].pc = "reserve_commit"
    /\ IF uq_summary_attempts_item_model_attempt_no(sm[c].item_id, sm[c].model_key, sm[c].attempt_no)
       THEN /\ summary_attempts' = Append(summary_attempts, SummaryAttempt(sm[c], "failed", FALSE, "none"))
            /\ sm' = [sm EXCEPT ![c].pc = "generate", ![c].attempt_row = "persistent"]
       ELSE /\ summary_attempts' = summary_attempts
            /\ sm' = [sm EXCEPT ![c].pc = "generate", ![c].attempt_row = "transient"]
    /\ UNCHANGED <<cfg, users, auth, items, content, attempts, wk, api, item_summaries, nreq, view>>

NoUpdateAttempt(rows, req, status, error_detail) == rows
\* the UPDATE of the row this session inserted
UpdateAttempt(rows, req, status, error_detail) ==
    [k \in 1..Len(rows) |->
        IF rows[k].req = req
        THEN [rows[k] EXCEPT !.status = status, !.finished = TRUE, !.error_detail = error_detail]
        ELSE rows[k]]

\* generate_summary and the commit of the ItemSummary row with the attempt
\* row: an UPDATE of the persistent row, an INSERT of a transient one
GenerateAndPersist(c) ==
    /\ sm[c].pc = "generate"
    /\ \E ok \in BOOLEAN, words \in cfg.outputs :
         IF ~ok
         THEN \* generate_summary or the commit raises: nothing is written
              /\ sm' = [sm EXCEPT ![c].pc = "error_commit", ![c].detail = "provider error"]
              /\ UNCHANGED <<summary_attempts, item_summaries, view>>
         ELSE IF sm[c].attempt_row = "persistent"
         THEN /\ summary_attempts' = UpdateAttempt(summary_attempts, sm[c].req, "succeeded", "none")
              /\ item_summaries' = Append(item_summaries, ItemSummary(sm[c], words))
              /\ Respond(c, 200)
         ELSE IF uq_summary_attempts_item_model_attempt_no(sm[c].item_id, sm[c].model_key, sm[c].attempt_no)
         THEN /\ summary_attempts' = Append(summary_attempts, SummaryAttempt(sm[c], "succeeded", TRUE, "none"))
              /\ item_summaries' = Append(item_summaries, ItemSummary(sm[c], words))
              /\ Respond(c, 200)
         ELSE \* IntegrityError: commit() rolls the transaction back
              /\ sm' = [sm EXCEPT ![c].pc = "error_commit", ![c].detail = "IntegrityError"]
              /\ UNCHANGED <<summary_attempts, item_summaries, view>>
    /\ UNCHANGED <<cfg, users, auth, items, content, attempts, wk, api, nreq, view>>

ErrorCommitNoUpdate(c) ==
    /\ sm[c].pc = "error_commit"
    /\ Respond(c, 500)
    /\ UNCHANGED <<cfg, users, auth, items, content, attempts, wk, api, summary_attempts, item_summaries, nreq, view>>

\* except Exception as e: best-effort update of the attempt with str(e),
\* then 500
ErrorCommit(c) ==
    /\ sm[c].pc = "error_commit"
    /\ summary_attempts' =
          IF sm[c].attempt_row = "persistent"
          THEN UpdateAttempt(summary_attempts, sm[c].req, "failed", sm[c].detail)
          ELSE IF uq_summary_attempts_item_model_attempt_no(sm[c].item_id, sm[c].model_key, sm[c].attempt_no)
          THEN Append(summary_attempts, SummaryAttempt(sm[c], "failed", TRUE, sm[c].detail))
          ELSE summary_attempts
    /\ Respond(c, 500)
    /\ UNCHANGED <<cfg, users, auth, items, content, attempts, wk, api, item_summaries, nreq, view>>

create_item_summary(c) ==
    \/ \E u \in cfg.users, id \in ItemIds, model_key \in {"none", "strong", " Strong ", "fast"} :
          SummaryRead(c, u, id, model_key)
    \/ ReserveCommit(c)
    \/ GenerateAndPersist(c)
    \/ ErrorCommit(c)

\* the API process dies while it serves the request; an open transaction
\* is rolled back with the connection, committed rows stay
SummaryCrash(c) ==
    /\ c \in cfg.crashers
    /\ sm[c].pc \in {"reserve_commit", "generate", "error_commit"}
    /\ sm' = [sm EXCEPT ![c] = NoSummaryRequest]
    /\ UNCHANGED <<cfg, users, auth, items, content, attempts, wk, api, summary_attempts, item_summaries, nreq, view>>

\* concurrent summarize requests on one succeeded item, served by processes
\* that can die
InitSum ==
    /\ cfg = [Deployment({}, Clients, {1}, {}, 1)
                EXCEPT !.crashers = Clients, !.urls = {"none"}, !.clock = FALSE]
    /\ EmptyDb

NextSum ==
    \/ CreateItem
    \/ \E c \in cfg.clients : create_item_summary(c)
    \/ \E c \in cfg.clients : SummaryCrash(c)

SpecSum == InitSum /\ [][NextSum]_vars

\* the whole service: workers and summary clients
InitAll ==
    /\ cfg \in { Deployment(Workers, {}, {1}, ClassResponses, 1),
                 Deployment({}, Clients, {1}, ClassResponses, 1) }
    /\ EmptyDb

NextAll ==
    \/ Next
    \/ \E c \in cfg.clients : create_item_summary(c)

SpecAll == InitAll /\ [][NextAll]_vars

\* two workers polling for ever (run_forever), one of which dies between
\* its claim and its write-back, any number of times, and is restarted;
\* the stale threshold exceeds the processing time
LiveDeployment ==
    [Deployment(Workers, {}, {1}, ClassResponses, 1)
        EXCEPT !.crashers = {"w1"}, !.crash_at = {"process", "fetch", "wb_commit"},
               !.timely = TRUE]

InitLive ==
    /\ cfg = LiveDeployment
    /\ EmptyDb

\* the while True loop of run_forever runs each worker's next statement;
\* the clock of the database advances
Fairness ==
    /\ WF_vars(Tick)
    /\ \A w \in Workers : WF_vars(_claim_and_process_batch(w))

SpecLive == InitLive /\ [][Next]_vars /\ Fairness

(* ---------------- API: GET /items/{id} and GET /items ---------------- *)
\* a query that would not filter on user_id
OwnedByAnyone(user_id) == { i \in ItemIds : items[i].exists }
\* WHERE Item.user_id == user_id
Owned(user_id) == { i \in ItemIds : items[i].exists /\ items[i].user_id = user_id }

\* GET /items/{id}: SELECT ... WHERE id = :id AND user_id = :user
get_item(user_id, id) ==
    /\ view' = IF id \in Owned(user_id)
               THEN [NoView EXCEPT !.op = "get", !.user_id = user_id, !.item_id = id,
                                   !.code = 200, !.detail = Cols(items[id])]
               ELSE [NoView EXCEPT !.op = "get", !.user_id = user_id, !.item_id = id,
                                   !.code = 404]
    /\ UNCHANGED <<cfg, users, auth, items, content, attempts, wk, api, summary_attempts, item_summaries, sm, nreq>>

\* f"{created_at.isoformat()}|{item_id}": neither part contains the bar
_encode_cursor(created_at, item_id) == <<created_at, "|", item_id>>

\* cursor.split("|", 1), datetime.fromisoformat, UUID; any failure is a 400
WellFormed(cursor) == Len(cursor) = 3 /\ cursor[2] = "|" /\ cursor[1] \in Nat /\ cursor[3] \in Nat
_decode_cursor(cursor) == [created_at |-> cursor[1], id |-> cursor[3]]

\* ORDER BY created_at DESC, id DESC
Precedes(i, j) ==
    \/ items[i].created_at > items[j].created_at
    \/ items[i].created_at = items[j].created_at /\ i > j

RECURSIVE OrderBy(_)
OrderBy(S) ==
    IF S = {} THEN <<>>
    ELSE LET first == CHOOSE i \in S : \A j \in S \ {i} : Precedes(i, j)
         IN <<first>> \o OrderBy(S \ {first})

\* a keyset condition that would compare created_at only
OlderByTime(i, cur) == items[i].created_at < cur.created_at
\* the keyset condition: strictly older than the cursor tuple
Older(i, cur) ==
    \/ items[i].created_at < cur.created_at
    \/ items[i].created_at = cur.created_at /\ i < cur.id

ListQuery(user_id, cursor) ==
    OrderBy({ i \in Owned(user_id) : cursor = NoCursor \/ Older(i, _decode_cursor(cursor)) })

\* GET /items?limit=&cursor=: limit + 1 rows are fetched to learn whether
\* more exist.  A client that passes the next_cursor it was given follows
\* the listing: acc is the concatenation of its pages, n0 the number of
\* its items when it asked for the first page.
list_items(user_id, limit, cursor) ==
    /\ view' =
         IF cursor # NoCursor /\ ~WellFormed(cursor)
         THEN [NoView EXCEPT !.op = "list", !.user_id = user_id, !.limit = limit,
                             !.cursor = cursor, !.code = 400]
         ELSE LET fetched == SubSeq(ListQuery(user_id, cursor), 1,
                                    Min(limit + 1, Len(ListQuery(user_id, cursor))))
                  more == Len(fetched) > limit
                  rows == IF more THEN SubSeq(fetched, 1, limit) ELSE fetched
                  last == fetched[limit]
                  follows == /\ view.op = "list" /\ view.code = 200 /\ view.walk
                             /\ view.user_id = user_id /\ view.limit = limit
                             /\ cursor # NoCursor /\ view.next_cursor = cursor
              IN [NoView EXCEPT !.op = "list", !.user_id = user_id, !.limit = limit,
                                !.cursor = cursor, !.code = 200, !.rows = rows,
                                !.next_cursor = IF more
                                                THEN _encode_cursor(items[last].created_at, last)
                                                ELSE NoCursor,
                                !.acc = IF follows THEN view.acc \o rows ELSE rows,
                                !.walk = (cursor = NoCursor) \/ follows,
                                !.n0 = IF follows THEN view.n0 ELSE Cardinality(Owned(user_id))]
    /\ UNCHANGED <<cfg, users, auth, items, content, attempts, wk, api, summary_attempts, item_summaries, sm, nreq>>

\* the cursors a client sends: none, the one it was given, one built from
\* any row of the table, a malformed one
Cursors ==
    {NoCursor, view.next_cursor, <<"x">>}
        \cup { _encode_cursor(items[i].created_at, i) : i \in { j \in ItemIds : items[j].exists } }

GetItem == \E u \in cfg.readers, id \in ItemIds : get_item(u, id)
ListItems == \E u \in cfg.readers, limit \in 1..MaxLimit, cursor \in Cursors : list_items(u, limit, cursor)

\* the API with its readers: one deployment with a worker, so that items
\* pass through every status; one with the summary clients; one with more
\* items in any id order, for the listing
\* the API with two users: one deployment with a worker, so that an item
\* reaches needs_user_text and is patched; one with a summary client and
\* texts of every kind; one with more items, in any id order, and readers
PatchDeployment ==
    [Deployment({"w1"}, {}, {1}, {Response("response", 404, TRUE, 10, 0)}, 1)
        EXCEPT !.users = Users, !.observe = TRUE]
SummaryDeployment ==
    [Deployment({}, {"c1"}, {1}, {}, 1)
        EXCEPT !.users = Users, !.clock = FALSE, !.observe = TRUE,
               !.pasted = {Text("blank", 1), Text("pasted", 1),
                           Text("pasted", MAX_INPUT_CHARS), Text("pasted", MAX_INPUT_CHARS + 1)},
               !.outputs = {0, WORD_CAP, WORD_CAP + 1}]
ListDeployment ==
    [Deployment({}, {}, ItemIds, {}, 1)
        EXCEPT !.users = Users, !.readers = Users, !.urls = {"none"},
               !.any_id = TRUE, !.clock = FALSE]

InitApi ==
    /\ cfg \in {PatchDeployment, SummaryDeployment, ListDeployment}
    /\ EmptyDb

NextApi ==
    \/ NextSeq
    \/ \E c \in cfg.clients : create_item_summary(c)
    \/ GetItem
    \/ ListItems

SpecApi == InitApi /\ [][NextApi]_vars

(* ---------------- API: the dependency get_current_user_id ---------------- *)
\* Every endpoint resolves its user through this dependency before its own
\* body runs.  The specifications above start after the users of the
\* deployment have been seen (their rows exist); here they have not.

\* settings.dev_user_id
dev_user_id == "u1"

\* values of the X-User-Id header: absent, empty, spellings of a UUID
\* (UUID() accepts either case), and a string that is not one
X_User_Ids == {"absent", "", "u1", "U1", "u2", "U2", "not-a-uuid"}

\* UUID(value), or the HTTPException(400) raised for it
_parse_uuid(value) ==
    CASE value \in {"u1", "U1"} -> "u1"
      [] value \in {"u2", "U2"} -> "u2"
      [] OTHER -> "invalid"

\* the primary key of users
users_pkey(user_id) == users[user_id] = 0

\* user_id = _parse_uuid(x_user_id) if x_user_id else settings.dev_user_id;
\* existing = db.get(User, user_id); if existing is None: db.add(User(...))
GetUser(c) ==
    /\ auth[c].pc = "none"
    /\ \E x_user_id \in X_User_Ids :
          LET user_id == IF x_user_id \in {"absent", ""} THEN dev_user_id
                         ELSE _parse_uuid(x_user_id)
          IN auth' = [auth EXCEPT ![c] =
                 IF user_id = "invalid"
                 THEN [NoAuth EXCEPT !.outcome = "HTTPException 400"]
                 ELSE IF users[user_id] > 0
                 THEN [NoAuth EXCEPT !.user_id = user_id, !.outcome = "returned"]
                 ELSE [NoAuth EXCEPT !.pc = "commit", !.user_id = user_id]]
    /\ UNCHANGED <<cfg, users, items, content, attempts, wk, api, sumvars>>

\* db.commit(): the INSERT is emitted here; a second row with the same id
\* is refused by the primary key and the IntegrityError is not caught
CommitUser(c) ==
    /\ auth[c].pc = "commit"
    /\ LET user_id == auth[c].user_id
       IN IF users_pkey(user_id)
          THEN /\ users' = [users EXCEPT ![user_id] = @ + 1]
               /\ auth' = [auth EXCEPT ![c] =
                      [NoAuth EXCEPT !.user_id = user_id, !.outcome = "returned"]]
          ELSE /\ auth' = [auth EXCEPT ![c] =
                      [NoAuth EXCEPT !.user_id = user_id, !.outcome = "IntegrityError"]]
               /\ UNCHANGED users
    /\ UNCHANGED <<cfg, items, content, attempts, wk, api, sumvars>>

get_current_user_id(c) ==
    \/ GetUser(c)
    \/ CommitUser(c)

\* a fresh database and two clients sending requests
InitAuth ==
    /\ cfg = [Deployment({}, Clients, {}, {}, 1) EXCEPT !.users = {}, !.crashers = {}]
    /\ EmptyDb

NextAuth == \E c \in cfg.clients : get_current_user_id(c)

SpecAuth == InitAuth /\ [][NextAuth]_vars

(* ======================= properties ======================= *)
Selected(w) == IF wk[w].pc = "claim_commit" THEN Range(wk[w].claimed) ELSE {}
SelectStep(w) == wk[w].pc = "claim_select" /\ wk'[w].pc = "claim_commit"
ClaimCommitStep(w) == wk[w].pc = "claim_commit" /\ wk'[w].pc = "process"

Terminal(i) == items[i].status \in {"succeeded", "failed"}
InCycle(i) == items[i].status \in {"queued", "processing"}
\* a step of a worker: the API request in flight does not move and no
\* item is created
WorkerStep == api' = api /\ \A i \in ItemIds : items'[i].exists = items[i].exists

\* C2 - terminality.  Once an item is succeeded or failed, no step of a
\* worker changes its status, status_detail, final_text_source or content.
C2_Terminality ==
    [][\A i \in ItemIds :
         Terminal(i) /\ WorkerStep =>
            /\ Cols(items'[i]) = Cols(items[i])
            /\ content'[i] = content[i]]_vars

\* C3 - retry bound.  An item that is still in the queued/processing cycle
\* has at most max_attempts ExtractionAttempt rows.
C3_RetryBound ==
    \A i \in ItemIds : InCycle(i) => Len(attempts[i]) <= max_attempts

\* C4 - attempt-number uniqueness.  In every committed state the
\* attempt_no values of the extraction attempts of one item are pairwise
\* distinct, and so are those of the summary attempts of one
\* (item, model_key) pair.
C4_AttemptNoUnique ==
    /\ \A i \in ItemIds : \A j, k \in 1..Len(attempts[i]) :
           j # k => attempts[i][j].attempt_no # attempts[i][k].attempt_no
    /\ \A j, k \in 1..Len(summary_attempts) :
           /\ j # k
           /\ summary_attempts[j].item_id = summary_attempts[k].item_id
           /\ summary_attempts[j].model_key = summary_attempts[k].model_key
           => summary_attempts[j].attempt_no # summary_attempts[k].attempt_no

\* two write-backs computed the same max+1: one row is in the table and
\* the other worker's INSERT was refused
C4_Witness ==
    \E w \in cfg.workers :
        /\ wk[w].pc = "except"
        /\ wk[w].attempt_no \in AttemptNos(CurItem(w))
        /\ Len(attempts[CurItem(w)]) >= 2

\* C5 - canonical-text invariant.  A succeeded item has a non-empty
\* canonical_text and a final_text_source.
C5_CanonicalText ==
    \A i \in ItemIds :
        items[i].exists /\ items[i].status = "succeeded" =>
            /\ Truthy(content[i].canonical_text)
            /\ items[i].final_text_source \in ItemFinalTextSource

\* an item that succeeded through extraction by the worker
C5_Witness ==
    \E i \in ItemIds :
        /\ items[i].status = "succeeded"
        /\ items[i].final_text_source = "extracted_from_url"
        /\ content[i].canonical_text.kind = "extracted"

\* the edges of the state machine table (section 4.5)
Edges ==
    { <<"none", "queued">>, <<"none", "succeeded">>,
      <<"queued", "processing">>,
      <<"processing", "succeeded">>, <<"processing", "queued">>,
      <<"processing", "needs_user_text">>, <<"processing", "failed">>,
      <<"needs_user_text", "succeeded">> }

\* C6 - transition-table conformance.  Every committed change of an
\* item's status is an edge of the table; succeeded and failed have no
\* outgoing edge.
C6_TransitionTable ==
    [][\A i \in ItemIds :
         items'[i].status # items[i].status =>
            <<items[i].status, items'[i].status>> \in Edges]_vars

\* the write-back of worker w commits: its attempt row is appended
WriteBackStep(w) ==
    /\ wk[w].pc = "wb_commit" /\ wk'[w].pc # "wb_commit"
    /\ Len(attempts'[CurItem(w)]) = Len(attempts[CurItem(w)]) + 1
LastRow(rows) == rows[Len(rows)]
Retryable(fetch) == ~fetch.ok /\ fetch.retryable
Success(fetch) == fetch.ok /\ Truthy(Extracted(fetch).text)

\* C7 - retry rule.  A write-back that records a retryable failure with
\* attempt number n leaves the item queued iff n < max_attempts, and in
\* needs_user_text otherwise.  With a fetcher that always answers 503 the
\* first attempt leaves the item in the cycle, the second one out of it.
C7_RetryRule ==
    /\ [][\A w \in cfg.workers :
            WriteBackStep(w) /\ Retryable(wk[w].fetch) =>
               LET id == CurItem(w)
                   n == LastRow(attempts'[id]).attempt_no
               IN /\ LastRow(attempts'[id]).result = "error"
                  /\ (items'[id].status = "queued") <=> (n < max_attempts)
                  /\ n >= max_attempts => items'[id].status = "needs_user_text"]_vars
    /\ [](\A i \in ItemIds :
            (\A k \in 1..Len(attempts[i]) : attempts[i][k].error_code = "http_503") =>
               /\ Len(attempts[i]) = 1 => InCycle(i)
               /\ Len(attempts[i]) = 2 => items[i].status \in {"needs_user_text", "succeeded"})

\* two 503 answers: attempts 1 and 2 are recorded and the item waits for
\* the user's text
C7_Witness ==
    \E i \in ItemIds :
        /\ Len(attempts[i]) = 2
        /\ attempts[i][1] = Attempt(1, "error", "http_503", 503)
        /\ attempts[i][2] = Attempt(2, "error", "http_503", 503)
        /\ items[i].status = "needs_user_text"

\* C8 - an item in needs_user_text is not changed by any worker step; it
\* leaves needs_user_text only through patch_item_text, to succeeded.
C8_NeedsUserTextFrozen ==
    [][\A i \in ItemIds :
         items[i].status = "needs_user_text" =>
            /\ WorkerStep => Cols(items'[i]) = Cols(items[i]) /\ content'[i] = content[i]
            /\ items'[i].status # "needs_user_text" =>
                  /\ items'[i].status = "succeeded"
                  /\ api.pc = "patch_commit" /\ api.item_id = i /\ api'.pc = "none"]_vars

NonRetryableCodes ==
    { "invalid_url", "non_html", "max_bytes_exceeded", "unexpected_fetch_error",
      "http_404", "empty_extraction", "too_short" }

\* C9 - non-retryable failures.  A write-back whose outcome is a
\* non-retryable fetch error or an extraction error records the error and
\* moves the item to needs_user_text in the same commit, whatever the
\* attempt number; an item with such an attempt is never in the
\* queued/processing cycle again.
C9_NonRetryable ==
    /\ [][\A w \in cfg.workers :
            WriteBackStep(w) /\ ~Retryable(wk[w].fetch) /\ ~Success(wk[w].fetch) =>
               LET id == CurItem(w) IN
                  /\ LastRow(attempts'[id]).result = "error"
                  /\ LastRow(attempts'[id]).error_code \in NonRetryableCodes
                  /\ items'[id].status = "needs_user_text"]_vars
    /\ [](\A i \in ItemIds :
            (\E k \in 1..Len(attempts[i]) : attempts[i][k].error_code \in NonRetryableCodes) =>
               ~InCycle(i))

\* scenario 4: one attempt with error_code non_html, item in needs_user_text
C9_Witness ==
    \E i \in ItemIds :
        /\ attempts[i] = <<Attempt(1, "error", "non_html", 200)>>
        /\ items[i].status = "needs_user_text"

\* C10 - success write-back.  The commit appends exactly one attempt with
\* result success, attempt_no = max existing + 1 and the fetch's
\* http_status, sets status succeeded, final_text_source
\* extracted_from_url, status_detail null, and extracted_text =
\* canonical_text = the extracted text.
C10_SuccessWriteBack ==
    [][\A w \in cfg.workers :
         WriteBackStep(w) /\ Success(wk[w].fetch) =>
            LET id == CurItem(w) IN
               /\ attempts'[id] = Append(attempts[id],
                     Attempt(MaxOf(AttemptNos(id)) + 1, "success", "none", wk[w].fetch.http_status))
               /\ \A j \in ItemIds \ {id} : attempts'[j] = attempts[j]
               /\ items'[id].status = "succeeded"
               /\ items'[id].final_text_source = "extracted_from_url"
               /\ items'[id].status_detail = "none"
               /\ content'[id].extracted_text = Extracted(wk[w].fetch).text
               /\ content'[id].canonical_text = Extracted(wk[w].fetch).text
               /\ Truthy(content'[id].canonical_text)]_vars

\* a fresh url item after its first, successful tick
C10_Witness ==
    \E i \in ItemIds :
        /\ attempts[i] = <<Attempt(1, "success", "none", 200)>>
        /\ items[i].status = "succeeded" /\ items[i].status_detail = "none"
        /\ items[i].final_text_source = "extracted_from_url"
        /\ content[i].extracted_text = Text("extracted", 600)
        /\ content[i].canonical_text = Text("extracted", 600)

\* C11 - patch_item_text.  On an item the caller owns that is in
\* needs_user_text it sets user_pasted_text and canonical_text to the pasted
\* text, final_text_source = user_pasted_text and status = succeeded; on an
\* item in any other status it answers 409 and leaves item and content
\* unchanged.
C11_PatchItemText ==
    [][/\ (api.pc = "none" /\ api'.pc = "patch_commit") =>
             items[api'.item_id].status = "needs_user_text"
       /\ (api.pc = "patch_commit" /\ api'.pc = "none") =>
             LET id == api.item_id IN
                /\ api'.response = 200
                /\ items'[id].status = "succeeded"
                /\ items'[id].status_detail = "none"
                /\ items'[id].final_text_source = "user_pasted_text"
                /\ content'[id].user_pasted_text = api.pasted_text
                /\ content'[id].canonical_text = api.pasted_text
                /\ content'[id].extracted_text = content[id].extracted_text
       /\ (api.pc = "none" /\ api'.pc = "none" /\ api' # api) =>
             LET id == api'.item_id
                 owned == items[id].exists /\ items[id].user_id = api'.user_id
             IN /\ api'.response = (IF owned THEN 409 ELSE 404)
                /\ owned => items[id].status # "needs_user_text"
                /\ items' = items /\ content' = content /\ attempts' = attempts]_vars

\* paste recovery, then a second patch of the now succeeded item answered 409
C11_Witness ==
    \E i \in ItemIds :
        /\ api.pc = "none" /\ api.item_id = i /\ api.response = 409
        /\ items[i].status = "succeeded"
        /\ items[i].final_text_source = "user_pasted_text"
        /\ items[i].source_type = "url"
        /\ content[i].canonical_text = Text("patched", 1)
        /\ content[i].user_pasted_text = Text("patched", 1)

C13_KeysetPagination ==
    [][(view' # view /\ view'.op = "list" /\ view'.code = 200) =>
         LET u == view'.user_id
             mine == { i \in ItemIds : items[i].exists /\ items[i].user_id = u }
             before(i, j) == \/ items[i].created_at > items[j].created_at
                             \/ items[i].created_at = items[j].created_at /\ i > j
             rows == view'.rows
             last == rows[Len(rows)]
             cur == view'.cursor
             after_cursor(i) == \/ cur = NoCursor
                                \/ items[i].created_at < cur[1]
                                \/ items[i].created_at = cur[1] /\ i < cur[3]
             acc == view'.acc
         IN /\ Len(rows) <= view'.limit
            /\ \A k \in 1..Len(rows) : rows[k] \in mine /\ after_cursor(rows[k])
            /\ \A k \in 1..(Len(rows) - 1) : before(rows[k], rows[k + 1])
            /\ \A i \in mine \ Range(rows) :
                  after_cursor(i) => rows # <<>> /\ Len(rows) = view'.limit /\ before(last, i)
            /\ (view'.next_cursor # NoCursor) <=>
                  (rows # <<>> /\ \E i \in mine : before(last, i))
            /\ view'.next_cursor # NoCursor =>
                  view'.next_cursor = <<items[last].created_at, "|", last>>
            /\ (view'.walk /\ Cardinality(mine) = view'.n0) =>
                  /\ Range(acc) \subseteq mine
                  /\ \A k \in 1..(Len(acc) - 1) : before(acc[k], acc[k + 1])
                  /\ \A i \in mine \ Range(acc), j \in Range(acc) : before(j, i)
                  /\ view'.next_cursor = NoCursor => Range(acc) = mine]_vars

\* three items of one user, two of them created in the same instant, read
\* to the end in pages of one
C13_Witness ==
    /\ view.op = "list" /\ view.code = 200 /\ view.walk /\ view.limit = 1
    /\ view.next_cursor = NoCursor /\ Len(view.acc) = 3 /\ view.n0 = 3
    /\ \E i, j \in ItemIds : i # j /\ items[i].created_at = items[j].created_at

\* C14: the preconditions of create_item_summary are checked in order: an
\* invalid model_key answers 400 whatever the item is; else an item that
\* does not exist or belongs to another user answers 404; else a status
\* other than succeeded answers 409; else a canonical_text that is missing
\* or whitespace only answers 409; else the request is accepted.  A
\* rejected request never reaches the model and leaves every table as it was.
C14_SummaryPreconditions ==
    [][\A c \in cfg.clients :
         (sm[c].pc = "none" /\ sm'[c] # sm[c]) =>
            LET u == sm'[c].user_id
                id == sm'[c].item_id
                valid == sm'[c].asked \in {"none", "strong", " Strong ", "mid", "budget"}
                found == items[id].exists /\ items[id].user_id = u
                text == content[id].canonical_text
                blank == ~content[id].exists \/ text.kind \in {"none", "blank"} \/ text.len = 0
                verdict == IF ~valid THEN <<400, "Invalid model_key">>
                           ELSE IF ~found THEN <<404, "Item not found.">>
                           ELSE IF items[id].status # "succeeded"
                           THEN <<409, "Item is not in succeeded status.">>
                           ELSE IF blank THEN <<409, "Item has no canonical_text to summarize.">>
                           ELSE <<0, "none">>
            IN /\ <<sm'[c].response, sm'[c].detail>> = verdict
               /\ sm'[c].pc = (IF verdict[1] = 0 THEN "reserve_commit" ELSE "none")
               /\ verdict[1] # 0 =>
                     /\ summary_attempts' = summary_attempts /\ item_summaries' = item_summaries
                     /\ items' = items /\ content' = content]_vars

\* the owner's request on a succeeded item whose text is whitespace only
C14_Witness ==
    \E c \in cfg.clients, id \in ItemIds :
        /\ sm[c].pc = "none" /\ sm[c].item_id = id /\ sm[c].response = 409
        /\ sm[c].detail = "Item has no canonical_text to summarize."
        /\ items[id].user_id = sm[c].user_id /\ items[id].status = "succeeded"
        /\ content[id].canonical_text = Text("blank", 1)
        /\ summary_attempts = <<>> /\ item_summaries = <<>>

\* C15: size bounds.  Every persisted ItemSummary row has output_words <=
\* 120, input_chars_used <= 20000 and input_chars_used <=
\* input_chars_original, and input_chars_original is the length of the
\* whole canonical_text of its item; the text a request hands to the model
\* is at most 20000 characters long.
C15_SizeBounds ==
    /\ \A k \in 1..Len(item_summaries) :
          LET row == item_summaries[k] IN
             /\ row.output_words <= 120
             /\ row.input_chars_used <= 20000
             /\ row.input_chars_used <= row.input_chars_original
             /\ row.input_chars_original = content[row.item_id].canonical_text.len
    /\ \A c \in cfg.clients :
          sm[c].pc \in {"reserve_commit", "generate"} =>
             /\ sm[c].truncated.len <= 20000
             /\ sm[c].truncated.len <= content[sm[c].item_id].canonical_text.len

\* a text one character over the input cap was summarised and the summary
\* row carries the capped sizes
C15_Witness ==
    \E k \in 1..Len(item_summaries) :
        /\ item_summaries[k].input_chars_original = MAX_INPUT_CHARS + 1
        /\ item_summaries[k].input_chars_used = MAX_INPUT_CHARS
        /\ item_summaries[k].output_words = WORD_CAP
        /\ \E j \in 1..Len(item_summaries) : item_summaries[j].output_words = 0

\* C16: no network I/O under a database lock.  A worker in the fetch and
\* extract phase of an item has no session open and holds no row lock; it
\* enters the phase from the read check of process_item only, which runs
\* after the claim transaction committed, and the write-back session is
\* opened only by a worker leaving the phase.
C16_NoLockDuringFetch ==
    [][\A w \in cfg.workers :
         /\ wk[w].pc = "fetch" =>
               /\ ~OpenTransaction(w)
               /\ \A i \in ItemIds : w \notin LockedBy(i)
         /\ (wk[w].pc # "fetch" /\ wk'[w].pc = "fetch") =>
               /\ wk[w].pc = "process"
               /\ \A i \in ItemIds : w \notin LockedBy(i)
         /\ (wk[w].pc # "wb_commit" /\ wk'[w].pc = "wb_commit") => wk[w].pc = "fetch"]_vars

\* one worker fetches the item while the other one, having taken it again
\* after a stale requeue, holds its row lock
C16_Witness ==
    \E w, v \in cfg.workers, i \in ItemIds :
        /\ wk[w].pc = "fetch" /\ CurItem(w) = i
        /\ v # w /\ LockedBy(i) = {v}

\* C17: stale-recovery liveness.  An item left in processing by a worker
\* that died (no running worker holds it) is eventually set back to queued
\* by the stale sweep, and is eventually claimed again, while the workers
\* keep polling.
Orphaned(i) ==
    /\ items[i].exists /\ items[i].status = "processing"
    /\ \A w \in cfg.workers : ~Owner(w, i)

C17_StaleRecovery ==
    \A i \in ItemIds :
        /\ Orphaned(i) ~> (items[i].status = "queued"
                              /\ items[i].status_detail = "requeued after stale processing")
        /\ Orphaned(i) ~> (items[i].status = "processing" /\ \E w \in cfg.workers : Owner(w, i))

\* the part of it that survives a late patch commit: the item does not stay
\* in processing
LeavesProcessing == \A i \in ItemIds : Orphaned(i) ~> items[i].status # "processing"

\* C18: internal error handling.  When the except branch of
\* _claim_and_process_batch commits for an item whose process_item raised,
\* the item is failed with a status_detail, and the same commit appends one
\* ExtractionAttempt with result error, error_code internal_error and
\* attempt_no = max existing + 1.
HandlerStep(w) ==
    /\ wk[w].pc = "except_commit" /\ wk'[w].pc # "except_commit"
    /\ attempts' # attempts

C18_InternalError ==
    [][\A w \in cfg.workers :
         /\ (wk[w].pc = "except" /\ wk'[w].pc = "except_commit") =>
               wk'[w].attempt_no = MaxOf(AttemptNos(CurItem(w))) + 1
         /\ HandlerStep(w) =>
               LET id == CurItem(w) IN
                  /\ items'[id].status = "failed"
                  /\ items'[id].status_detail \notin {"none", "processing"}
                  /\ attempts'[id] = Append(attempts[id],
                        [attempt_no |-> MaxOf(AttemptNos(id)) + 1, result |-> "error",
                         error_code |-> "internal_error", http_status |-> NoStatus])
                  /\ \A j \in ItemIds \ {id} : items'[j] = items[j] /\ attempts'[j] = attempts[j]
                  /\ content' = content]_vars

\* the write-back of the second attempt failed in the database: the item is
\* failed and its last attempt is the internal error, numbered 2
C18_Witness ==
    \E i \in ItemIds :
        /\ items[i].status = "failed"
        /\ Len(attempts[i]) = 2
        /\ attempts[i][1].error_code = "http_503" /\ attempts[i][1].attempt_no = 1
        /\ attempts[i][2].error_code = "internal_error" /\ attempts[i][2].attempt_no = 2

\* C19: error containment.  A worker leaves run_forever through an
\* exception of the claim transaction only, never while it processes a
\* claimed item; after an item whose process_item raised, and also when the
\* except branch failed in its turn, the worker goes on with the next
\* claimed id, and it ends the batch (returning the number of claimed ids
\* to the polling loop) only after the last one.
ItemPcs == {"process", "fetch", "wb_commit", "except", "except_commit"}

C19_ErrorContainment ==
    [][\A w \in cfg.workers :
         /\ (wk[w].pc # "dead" /\ wk'[w].pc = "dead") => wk[w].pc \in {"claim_select", "claim_commit"}
         /\ (wk[w].pc \in ItemPcs /\ wk'[w].pc \notin ItemPcs) =>
               /\ wk'[w].pc = "idle"
               /\ wk[w].idx = Len(wk[w].claimed)
         /\ (wk[w].pc \in ItemPcs /\ wk'[w].pc \in ItemPcs) =>
               /\ wk'[w].claimed = wk[w].claimed
               /\ wk'[w].idx \in {wk[w].idx, wk[w].idx + 1}
               /\ wk'[w].idx = wk[w].idx + 1 => wk'[w].pc = "process"
         /\ (wk[w].pc \in {"except", "except_commit"} /\ wk'[w].pc # wk[w].pc) =>
               wk'[w].pc \in {"except_commit", "process", "idle"}]_vars

\* the first item of a batch of two stayed in processing because its
\* write-back and the except branch both failed, and the worker is at the
\* second item
C19_Witness ==
    \E w \in cfg.workers :
        /\ wk[w].pc = "fetch" /\ Len(wk[w].claimed) = 2 /\ wk[w].idx = 2
        /\ items[wk[w].claimed[1]].status = "processing"
        /\ attempts[wk[w].claimed[1]] = <<>>
        /\ items[wk[w].claimed[1]].idle_minutes = 0

\* C20: attempt-number race resolution.  When a write-back commits with an
\* attempt_no that another write-back of the same item has taken meanwhile,
\* it computes max + 1 again and is applied: its attempt is recorded under
\* the new number with its own result, and the item takes its outcome.
\* (Only the death of the worker process ends the write-back otherwise.)
C20_AttemptRaceRetry ==
    [][\A w \in cfg.workers :
         (/\ wk[w].pc = "wb_commit"
          /\ wk[w].attempt_no \in AttemptNos(CurItem(w))
          /\ wk'[w] # wk[w]) =>
            LET id == CurItem(w)
                ex == Extracted(wk[w].fetch)
                no == MaxOf(AttemptNos(id)) + 1
                out == Outcome(wk[w].loaded, wk[w].fetch, ex.text, ex.error_code, no)
            IN \/ /\ wk'[w] = IdleWorker
                  /\ items' = items /\ attempts' = attempts /\ content' = content
               \/ /\ attempts'[id] = Append(attempts[id],
                         Attempt(no, out.result, out.error_code, wk[w].fetch.http_status))
                  /\ items'[id].status = out.item.status]_vars

\* C21: failed is reserved for internal errors.  Every item in status
\* failed has an ExtractionAttempt with error_code internal_error; a step
\* that moves an item to failed appends that attempt to it in the same
\* commit, so no write-back of a fetch or extraction outcome does it.
C21_FailedIsInternal ==
    [][\A i \in ItemIds :
         /\ items[i].status = "failed" =>
               \E k \in 1..Len(attempts[i]) : attempts[i][k].error_code = "internal_error"
         /\ (items[i].status # "failed" /\ items'[i].status = "failed") =>
               /\ Len(attempts'[i]) = Len(attempts[i]) + 1
               /\ attempts'[i][Len(attempts'[i])].error_code = "internal_error"
               /\ attempts'[i][Len(attempts'[i])].result = "error"]_vars

\* an item failed by the except branch after fetch outcomes were recorded
C21_Witness ==
    \E i \in ItemIds :
        /\ items[i].status = "failed"
        /\ \E k \in 1..Len(attempts[i]) : attempts[i][k].error_code = "http_503"
        /\ \E k \in 1..Len(attempts[i]) : attempts[i][k].error_code = "too_short"
        /\ \E k \in 1..Len(attempts[i]) : attempts[i][k].error_code = "internal_error"

\* C22 as stated: every request that passed the preconditions and is at the
\* model call has its SummaryAttempt row committed, with status failed and
\* finished_at null.
Reserved(c) ==
    \E k \in 1..Len(summary_attempts) :
        /\ summary_attempts[k].req = sm[c].req
        /\ summary_attempts[k].item_id = sm[c].item_id
        /\ summary_attempts[k].model_key = sm[c].model_key
        /\ summary_attempts[k].attempt_no = sm[c].attempt_no
        /\ summary_attempts[k].status = "failed" /\ ~summary_attempts[k].finished

C22_EveryRequestReserved ==
    \A c \in cfg.clients : sm[c].pc = "generate" => Reserved(c)

\* C22, amended: a request whose placeholder insert did not fail has its
\* SummaryAttempt row (status failed, finished_at null) committed when the
\* model is called; the row is inserted with attempt_no = max existing for
\* (item, model_key) + 1; and every committed row keeps its item, model_key
\* and attempt_no from then on, so the number of a request that died during
\* the model call stays taken and the row stays failed.
C22_AttemptReserved ==
    [][/\ \A c \in cfg.clients :
            /\ (sm[c].pc = "generate" /\ sm[c].attempt_row = "persistent") => Reserved(c)
            /\ (sm[c].pc = "reserve_commit" /\ sm'[c].pc = "generate"
                    /\ summary_attempts' # summary_attempts) =>
                  /\ sm'[c].attempt_row = "persistent"
                  /\ Len(summary_attempts') = Len(summary_attempts) + 1
                  /\ LET row == summary_attempts'[Len(summary_attempts')] IN
                        /\ row.req = sm[c].req
                        /\ row.attempt_no = MaxOf(SummaryAttemptNos(row.item_id, row.model_key)) + 1
                        /\ row.status = "failed" /\ ~row.finished
                  /\ item_summaries' = item_summaries
            /\ (sm[c].pc = "generate" /\ sm'[c] = NoSummaryRequest /\ Reserved(c)) =>
                  \E k \in 1..Len(summary_attempts') :
                      /\ summary_attempts'[k].req = sm[c].req
                      /\ summary_attempts'[k].status = "failed" /\ ~summary_attempts'[k].finished
       /\ Len(summary_attempts') >= Len(summary_attempts)
       /\ \A k \in 1..Len(summary_attempts) :
             /\ summary_attempts'[k].item_id = summary_attempts[k].item_id
             /\ summary_attempts'[k].model_key = summary_attempts[k].model_key
             /\ summary_attempts'[k].attempt_no = summary_attempts[k].attempt_no]_vars

\* a request died during the model call; its number 1 is still taken by a
\* failed, unfinished row and a later request holds number 2
C22_Witness ==
    \E c \in cfg.clients :
        /\ sm[c].pc = "generate" /\ sm[c].attempt_no = 2 /\ Reserved(c)
        /\ \A d \in cfg.clients \ {c} : sm[d].pc = "none"
        /\ Len(summary_attempts) = 2
        /\ summary_attempts[1].attempt_no = 1 /\ summary_attempts[1].status = "failed"
        /\ ~summary_attempts[1].finished
        /\ summary_attempts[1].model_key = sm[c].model_key

\* C23: summary success is atomic. A step that inserts an ItemSummary is the
\* commit of one request: it inserts exactly one row, and in the same step
\* that request's SummaryAttempt becomes succeeded with finished_at set; an
\* attempt turns succeeded only in such a step. In every committed state a
\* succeeded attempt has an ItemSummary of the same item and model_key written
\* by the same request, and no ItemSummary belongs to a request whose attempt
\* row is failed.
SummariesOf(rows, req) == { k \in 1..Len(rows) : rows[k].req = req }

C23_SuccessAtomic ==
    [][/\ \A k \in 1..Len(summary_attempts) :
            summary_attempts[k].status = "succeeded" =>
               /\ summary_attempts[k].finished
               /\ \E j \in SummariesOf(item_summaries, summary_attempts[k].req) :
                     /\ item_summaries[j].item_id = summary_attempts[k].item_id
                     /\ item_summaries[j].model_key = summary_attempts[k].model_key
       /\ \A j \in 1..Len(item_summaries) :
            \A k \in SummariesOf(summary_attempts, item_summaries[j].req) :
               summary_attempts[k].status = "succeeded"
       /\ item_summaries' # item_summaries =>
            /\ Len(item_summaries') = Len(item_summaries) + 1
            /\ \A j \in 1..Len(item_summaries) : item_summaries'[j] = item_summaries[j]
            /\ \E c \in cfg.clients :
                  /\ sm[c].pc = "generate" /\ sm'[c].response = 200
                  /\ item_summaries'[Len(item_summaries')].req = sm[c].req
                  /\ \E k \in SummariesOf(summary_attempts', sm[c].req) :
                        /\ summary_attempts'[k].status = "succeeded"
                        /\ summary_attempts'[k].finished
                        /\ sm[c].attempt_row = "persistent" =>
                              (k <= Len(summary_attempts) /\ summary_attempts[k].status = "failed")
       /\ \A k \in 1..Len(summary_attempts') :
            (/\ summary_attempts'[k].status = "succeeded"
             /\ (k > Len(summary_attempts) \/ summary_attempts[k].status # "succeeded")) =>
               /\ Len(item_summaries') = Len(item_summaries) + 1
               /\ item_summaries'[Len(item_summaries')].req = summary_attempts'[k].req]_vars

\* a reserved attempt was flipped to succeeded with its ItemSummary, beside an
\* attempt of another request that ended failed
C23_Witness ==
    /\ Len(item_summaries) = 1
    /\ Len(summary_attempts) = 2
    /\ \E k \in 1..2 :
          /\ summary_attempts[k].status = "succeeded"
          /\ summary_attempts[k].req = item_summaries[1].req
          /\ summary_attempts[3 - k].status = "failed"
          /\ summary_attempts[3 - k].finished
          /\ summary_attempts[3 - k].model_key = summary_attempts[k].model_key

C25_ReservationFailureProceeds ==
    [][\A c \in cfg.clients :
         (sm[c].pc = "generate" /\ sm[c].attempt_row = "transient"
            /\ sm'[c] # sm[c] /\ sm'[c] # NoSummaryRequest) =>
           \/ sm'[c].pc = "error_commit" /\ sm'[c].detail = "provider error"
           \/ /\ sm'[c].response = 200
              /\ Len(item_summaries') = Len(item_summaries) + 1
              /\ item_summaries'[Len(item_summaries')].req = sm[c].req]_vars

\* C26: requests for different model tiers never conflict. Attempt numbers
\* are allocated per (item_id, model_key): the numbers of each tier are
\* 1..n whatever the other tier holds; a placeholder insert fails only when
\* another request's row of the same item and the same tier holds the number;
\* and a request that reserved its number leaves the model call either with a
\* provider error or with its ItemSummary committed and the answer 200.
TierRows(i, model_key) ==
    { k \in 1..Len(summary_attempts) :
        summary_attempts[k].item_id = i /\ summary_attempts[k].model_key = model_key }

C26_TiersIndependent ==
    [][/\ \A i \in ItemIds, t \in ALLOWED_MODEL_KEYS :
            /\ SummaryAttemptNos(i, t) = 1..Cardinality(TierRows(i, t))
            /\ \A k \in TierRows(i, t), j \in TierRows(i, t) :
                  summary_attempts[k].attempt_no = summary_attempts[j].attempt_no => k = j
       /\ \A c \in cfg.clients :
            /\ (sm[c].pc = "reserve_commit" /\ sm'[c].pc = "generate") =>
                  IF \E k \in TierRows(sm[c].item_id, sm[c].model_key) :
                        summary_attempts[k].attempt_no = sm[c].attempt_no
                  THEN sm'[c].attempt_row = "transient" /\ summary_attempts' = summary_attempts
                  ELSE /\ sm'[c].attempt_row = "persistent"
                       /\ Len(summary_attempts') = Len(summary_attempts) + 1
                       /\ summary_attempts'[Len(summary_attempts')].req = sm[c].req
            /\ (sm[c].pc = "generate" /\ sm[c].attempt_row = "persistent"
                   /\ sm'[c] # sm[c] /\ sm'[c] # NoSummaryRequest) =>
                  \/ sm'[c].pc = "error_commit" /\ sm'[c].detail = "provider error"
                  \/ /\ sm'[c].response = 200
                     /\ Len(item_summaries') = Len(item_summaries) + 1
                     /\ item_summaries'[Len(item_summaries')].req = sm[c].req
                     /\ item_summaries'[Len(item_summaries')].model_key = sm[c].model_key]_vars

\* two requests in flight on one item for two tiers; each holds attempt 1 of
\* its tier, and the first has already committed its summary beside the
\* other's reserved row
C26_Witness ==
    /\ Len(summary_attempts) = 2
    /\ summary_attempts[1].item_id = summary_attempts[2].item_id
    /\ summary_attempts[1].model_key # summary_attempts[2].model_key
    /\ summary_attempts[1].attempt_no = 1 /\ summary_attempts[2].attempt_no = 1
    /\ summary_attempts[1].status = "succeeded"
    /\ Len(item_summaries) = 1
    /\ \E c \in cfg.clients :
          /\ sm[c].pc = "generate" /\ sm[c].attempt_row = "persistent"
          /\ sm[c].req = summary_attempts[2].req
          /\ sm[c].req < item_summaries[1].req

\* rows of both attempt tables are never deleted, and an ExtractionAttempt
\* row never changes
AttemptsKept ==
    /\ \A i \in ItemIds :
          /\ Len(attempts'[i]) >= Len(attempts[i])
          /\ \A k \in 1..Len(attempts[i]) : attempts'[i][k] = attempts[i][k]
    /\ Len(summary_attempts') >= Len(summary_attempts)

\* a change of a SummaryAttempt row is made by the request that reserved it,
\* as it answers, on a row whose finished_at is still null
UpdatedByOwner(k) ==
    /\ ~summary_attempts[k].finished
    /\ summary_attempts'[k].finished
    /\ summary_attempts'[k].item_id = summary_attempts[k].item_id
    /\ summary_attempts'[k].model_key = summary_attempts[k].model_key
    /\ summary_attempts'[k].attempt_no = summary_attempts[k].attempt_no
    /\ summary_attempts'[k].req = summary_attempts[k].req
    /\ \E c \in cfg.clients :
          /\ sm[c].req = summary_attempts[k].req
          /\ sm[c].attempt_row = "persistent"
          /\ sm[c].pc \in {"generate", "error_commit"}
          /\ sm'[c].pc = "none"

\* C27 as stated: attempt rows are never deleted, ExtractionAttempt rows
\* never change, and a SummaryAttempt row changes only by its reserving
\* request and only for the flip to succeeded.
C27_OnlyFlipToSucceeded ==
    [][/\ AttemptsKept
       /\ \A k \in 1..Len(summary_attempts) :
            summary_attempts'[k] # summary_attempts[k] =>
               UpdatedByOwner(k) /\ summary_attempts'[k].status = "succeeded"]_vars

\* C27, amended: attempt rows are never deleted, ExtractionAttempt rows never
\* change, and a SummaryAttempt row changes only once, by its reserving
\* request, to write its terminal fields: either the flip to succeeded or, on
\* the error path, finished_at and error_detail with the status left failed.
\* No row changes after its finished_at is written.
C27_AppendOnly ==
    [][/\ AttemptsKept
       /\ \A k \in 1..Len(summary_attempts) :
            summary_attempts'[k] # summary_attempts[k] =>
               /\ UpdatedByOwner(k)
               /\ \/ summary_attempts'[k].status = "succeeded"
                  \/ /\ summary_attempts'[k].status = "failed"
                     /\ summary_attempts'[k].error_detail # "none"]_vars

\* both kinds of update have happened and a third request is in flight
C27_Witness ==
    /\ Len(summary_attempts) = 2
    /\ summary_attempts[1].status = "failed" /\ summary_attempts[1].finished
    /\ summary_attempts[1].error_detail = "provider error"
    /\ summary_attempts[2].status = "succeeded" /\ summary_attempts[2].finished
    /\ \E c \in cfg.clients : sm[c].pc = "reserve_commit" /\ sm[c].req = 3

\* C28: source-type invariant. An item with source_type url has a non-empty
\* requested_url; an item with source_type pasted_text has no requested_url
\* and final_text_source user_pasted_text. A create_item call with inputs
\* (url, pasted_text, prefer_pasted_text) creates a succeeded pasted_text item
\* holding the text when pasted_text is given and (prefer_pasted_text or no
\* url), and a queued url item with that url otherwise. source_type and
\* requested_url of an existing item never change.
C28_SourceType ==
    [][/\ \A i \in ItemIds : items[i].exists =>
            /\ items[i].source_type \in {"url", "pasted_text"}
            /\ items[i].source_type = "url" => items[i].requested_url # "none"
            /\ items[i].source_type = "pasted_text" =>
                  /\ items[i].requested_url = "none"
                  /\ items[i].final_text_source = "user_pasted_text"
            /\ items'[i].exists
            /\ items'[i].source_type = items[i].source_type
            /\ items'[i].requested_url = items[i].requested_url
       /\ \A u \in cfg.users, url \in cfg.urls, p \in {NoneText} \cup cfg.pasted,
             prefer \in BOOLEAN, created_at \in {LatestCreated, LatestCreated + 1} :
            create_item(u, url, p, prefer, created_at) =>
               \E id \in ItemIds :
                  /\ ~items[id].exists /\ items'[id].exists
                  /\ IF p.kind # "none" /\ (prefer \/ url = "none")
                     THEN /\ items'[id].status = "succeeded"
                          /\ items'[id].source_type = "pasted_text"
                          /\ items'[id].requested_url = "none"
                          /\ items'[id].final_text_source = "user_pasted_text"
                          /\ content'[id].canonical_text = p
                     ELSE /\ items'[id].status = "queued"
                          /\ items'[id].source_type = "url"
                          /\ items'[id].requested_url = url /\ url # "none"
                          /\ items'[id].final_text_source = "none"
                          /\ content'[id].canonical_text = NoneText]_vars

\* a url item created with a fallback text (url path although pasted_text was
\* given) has been extracted: its final_text_source changed, its source_type
\* and requested_url did not
C28_Witness ==
    \E i \in ItemIds :
        /\ items[i].exists /\ items[i].source_type = "url"
        /\ items[i].requested_url = "https://example.com/article"
        /\ Truthy(content[i].user_pasted_text)
        /\ items[i].status = "succeeded"
        /\ items[i].final_text_source = "extracted_from_url"

\* C29: fetch status classification. For a response with status s, fetch_url
\* returns ok = false, error_code http_<s>, retryable when s is 429 or 5xx;
\* ok = false, error_code timeout, retryable when s is 408; ok = false,
\* error_code http_<s>, not retryable for every other 4xx; and ok = true only
\* when s is 2xx.
C29_StatusClassification ==
    \A w \in cfg.workers :
        (wk[w].pc = "wb_commit" /\ wk[w].fetch.http_status # NoStatus) =>
            LET f == wk[w].fetch
                s == f.http_status
            IN /\ (s = 429 \/ s \in 500..599) =>
                     ~f.ok /\ f.error_code = "http_" \o ToString(s) /\ f.retryable
               /\ s = 408 => ~f.ok /\ f.error_code = "timeout" /\ f.retryable
               /\ s \in (400..499) \ {408, 429} =>
                     ~f.ok /\ f.error_code = "http_" \o ToString(s) /\ ~f.retryable
               /\ f.ok => s \in 200..299

\* C30: the write-back of process_item is guarded by ownership. A write-back
\* commit that appends an attempt finds the item still processing; it never
\* moves a succeeded item to needs_user_text or queued, and never replaces
\* the canonical_text a user pasted into a succeeded item.
C30_WriteBackOwnership ==
    [][\A w \in cfg.workers :
         WriteBackStep(w) =>
            LET id == CurItem(w) IN
            /\ items[id].status = "processing"
            /\ items[id].status = "succeeded" =>
                  items'[id].status \notin {"needs_user_text", "queued"}
            /\ (items[id].status = "succeeded"
                   /\ items[id].final_text_source = "user_pasted_text") =>
                  content'[id].canonical_text = content[id].canonical_text]_vars

\* C31: no lost update between the stale sweep and a write-back. The commit
\* of the sweep's transaction sets an item to queued only if the item's
\* committed status is processing when the update is applied; an item that a
\* write-back committed as succeeded or needs_user_text after the sweep read
\* it is not set back to queued.
C31_NoLostUpdate ==
    [][\A w \in cfg.workers :
         (wk[w].pc = "claim_commit" /\ wk'[w].pc # "claim_commit") =>
            \A i \in ItemIds :
               (items'[i].status # items[i].status /\ items'[i].status = "queued") =>
                  items[i].status = "processing"]_vars

\* the running workers that are fetching, extracting or writing back item i
Processing(i) ==
    { w \in cfg.workers : wk[w].pc \in {"fetch", "wb_commit"} /\ CurItem(w) = i }

\* C32: single live processor. Where the stale threshold exceeds the
\* worst-case processing time (cfg.timely: an item held by a running worker
\* never becomes stale), at most one running worker is in the fetch,
\* extraction or write-back of a given item at any time.
C32_SingleLiveProcessor ==
    cfg.timely => \A i \in ItemIds : Cardinality(Processing(i)) <= 1

\* C33: the read check skips without side effects. When process_item finds
\* the item missing, not of source_type url, or not in status processing, it
\* returns: the fetcher is not called, no ExtractionAttempt is inserted and
\* no item or content row changes; the loop moves on to the next claimed id.
C33_ReadCheckSkips ==
    [][\A w \in cfg.workers :
         (/\ wk[w].pc = "process" /\ wk'[w] # wk[w]
          /\ \/ ~items[CurItem(w)].exists
             \/ items[CurItem(w)].source_type # "url"
             \/ items[CurItem(w)].status # "processing") =>
            /\ wk'[w].pc \notin {"fetch", "wb_commit", "except"}
            /\ wk'[w].fetch = IdleWorker.fetch
            /\ attempts' = attempts
            /\ items' = items
            /\ content' = content]_vars

\* a worker is at the read check of an item it claimed and that is no longer
\* processing: another worker finished it in the meantime
C33_Witness ==
    \E w \in cfg.workers :
        /\ wk[w].pc = "process"
        /\ items[CurItem(w)].status = "succeeded"
        /\ Len(attempts[CurItem(w)]) = 1
        /\ \A v \in cfg.workers \ {w} : wk[v].pc = "idle"

\* C34: missing URL. When the read check of process_item finds a processing
\* url item whose requested_url is empty, it appends exactly one
\* ExtractionAttempt with result error, error_code missing_link and
\* attempt_no = max existing + 1, moves the item to needs_user_text in the
\* same commit, and returns without calling the fetcher.
C34_MissingUrl ==
    [][\A w \in cfg.workers :
         /\ wk[w].pc \in {"fetch", "wb_commit"} => items[CurItem(w)].requested_url # "none"
         /\ (/\ wk[w].pc = "process" /\ wk'[w] # wk[w]
             /\ items[CurItem(w)].exists
             /\ items[CurItem(w)].source_type = "url"
             /\ items[CurItem(w)].status = "processing"
             /\ items[CurItem(w)].requested_url = "none") =>
            LET id == CurItem(w) IN
            /\ Len(attempts'[id]) = Len(attempts[id]) + 1
            /\ \A k \in 1..Len(attempts[id]) : attempts'[id][k] = attempts[id][k]
            /\ LastRow(attempts'[id]).result = "error"
            /\ LastRow(attempts'[id]).error_code = "missing_link"
            /\ LastRow(attempts'[id]).http_status = NoStatus
            /\ LastRow(attempts'[id]).attempt_no = MaxOf(AttemptNos(id)) + 1
            /\ items'[id].status = "needs_user_text"
            /\ content' = content
            /\ \A j \in ItemIds \ {id} : items'[j] = items[j] /\ attempts'[j] = attempts[j]
            /\ wk'[w].pc \notin {"fetch", "wb_commit", "except"}
            /\ wk'[w].fetch = IdleWorker.fetch]_vars

\* the item without URL asks for the user's text after one missing_link
\* attempt
C34_Witness ==
    \E i \in ItemIds :
        /\ items[i].exists /\ items[i].source_type = "url" /\ items[i].requested_url = "none"
        /\ items[i].status = "needs_user_text"
        /\ Len(attempts[i]) = 1
        /\ attempts[i][1].error_code = "missing_link"
        /\ attempts[i][1].attempt_no = 1

\* the rows another claim transaction holds locked
LockedByOther(w, i) == \E v \in cfg.workers \ {w} : i \in Selected(v)
\* the rows the SELECT of claim_batch may return to w
Candidates(w) ==
    { i \in ItemIds : /\ items[i].exists /\ items[i].status = "queued"
                      /\ items[i].source_type = "url" /\ ~LockedByOther(w, i) }
ClaimEnds(w) == wk[w].pc = "claim_commit" /\ wk'[w].pc # "claim_commit"

\* C35: claim selection. The SELECT of a claim transaction returns at most
\* batch_size distinct items, each queued with source_type url and not locked
\* by another transaction, oldest created_at first, leaving out no candidate
\* that is older than a selected one, and writes nothing. The commit of the
\* transaction moves only selected items to processing, with status_detail
\* "processing", hence at most batch_size of them and never a pasted_text
\* item or an item that is not queued; an item it did not select is left as
\* it was, or is one the stale sweep of the same transaction set back to
\* queued.
C35_ClaimSelection ==
    [][\A w \in cfg.workers :
         /\ SelectStep(w) =>
               LET s == wk'[w].claimed IN
               /\ Len(s) = Min(cfg.batch_size, Cardinality(Candidates(w)))
               /\ Range(s) \subseteq Candidates(w)
               /\ \A a, b \in 1..Len(s) :
                     a < b => s[a] # s[b] /\ items[s[a]].created_at <= items[s[b]].created_at
               /\ \A i \in Range(s), j \in Candidates(w) \ Range(s) :
                     items[i].created_at <= items[j].created_at
               /\ items' = items
         /\ ClaimEnds(w) =>
               /\ Len(wk[w].claimed) <= cfg.batch_size
               /\ \A i \in ItemIds :
                     items'[i] # items[i] =>
                        \/ /\ i \in Range(wk[w].claimed)
                           /\ items[i].source_type = "url"
                           /\ items[i].status = "queued"
                           /\ \E st \in {"queued", "processing"} :
                                 items'[i] = [items[i] EXCEPT !.status = st,
                                                              !.status_detail = "processing",
                                                              !.idle_minutes = 0]
                        \/ /\ i \in DOMAIN wk[w].stale
                           /\ items'[i].status = "queued"
                           /\ items'[i].status_detail = "requeued after stale processing"
               /\ content' = content /\ attempts' = attempts]_vars

\* with a batch of two, a worker holds the two oldest url items, now
\* processing, while the pasted item and the youngest url item were left
C35_Witness ==
    /\ cfg.batch_size = 2
    /\ \E w \in cfg.workers :
          /\ wk[w].pc = "process" /\ wk[w].idx = 1 /\ Len(wk[w].claimed) = 2
          /\ \A i \in Range(wk[w].claimed) : items[i].status = "processing"
          /\ \E j \in ItemIds \ Range(wk[w].claimed) :
                /\ items[j].exists /\ items[j].source_type = "url" /\ items[j].status = "queued"
                /\ \A i \in Range(wk[w].claimed) : items[i].created_at <= items[j].created_at
          /\ \A v \in cfg.workers \ {w} : wk[v].pc = "claim_commit" /\ Len(wk[v].claimed) = 1

SweepStep(w) == wk[w].pc = "idle" /\ wk'[w].pc = "claim_select"
\* the commit of the claim transaction, told from the death of the process
\* by its writes
ClaimWrites(w) == ClaimEnds(w) /\ items' # items

C37_DenseAttemptNos ==
    [][\A i \in ItemIds :
         /\ \A k \in 1..Len(attempts[i]) : attempts[i][k].attempt_no = k
         /\ Len(attempts'[i]) > Len(attempts[i]) =>
               /\ Len(attempts'[i]) = Len(attempts[i]) + 1
               /\ LastRow(attempts'[i]).attempt_no = MaxOf(AttemptNos(i)) + 1]_vars

\* three attempts, the third one recorded by the except branch after a
\* write-back lost the race for its number
C37_Witness ==
    \E i \in ItemIds :
        /\ Len(attempts[i]) = 3
        /\ AttemptNos(i) = 1..3
        /\ attempts[i][3].error_code = "internal_error"
        /\ attempts[i][3].attempt_no = 3

\* C38: eventual settlement.  While the workers keep polling (weak fairness of
\* each worker's loop) and the worker processes die between claim and
\* write-back only finitely often, every url item that exists eventually has
\* status succeeded, needs_user_text or failed; a settled item has at most
\* max_attempts ExtractionAttempt rows; and a settled item is never queued or
\* processing again.
Settled(i) == items[i].status \in {"succeeded", "needs_user_text", "failed"}

\* a step that may be the death of a worker process: a worker between claim
\* and write-back is back at the start of its loop and the database is as
\* it was
ProcessDies(w) ==
    /\ w \in cfg.crashers /\ wk[w].pc \in cfg.crash_at
    /\ wk'[w] = IdleWorker
    /\ UNCHANGED <<items, content, attempts>>

C38_EventualSettlement ==
    <>[][\A w \in Workers : ~ProcessDies(w)]_vars =>
        \A i \in ItemIds :
            /\ (items[i].exists /\ items[i].source_type = "url") ~> Settled(i)
            /\ [](Settled(i) /\ items[i].source_type = "url" =>
                     Len(attempts[i]) <= max_attempts)
            /\ [](Settled(i) => [](~InCycle(i)))

\* C39: at most one successful extraction per item.  In every committed state
\* an item has at most one ExtractionAttempt with result success, an attempt
\* has result success exactly when its error_code is null, and an item with a
\* success attempt has a non-empty extracted_text.
SuccessAttempts(i) == { k \in 1..Len(attempts[i]) : attempts[i][k].result = "success" }

C39_AtMostOneSuccess == \A i \in ItemIds : Cardinality(SuccessAttempts(i)) <= 1

C39_SuccessIffNoErrorCode ==
    \A i \in ItemIds : \A k \in 1..Len(attempts[i]) :
        attempts[i][k].result = "success" <=> attempts[i][k].error_code = "none"

C39_SuccessHasText ==
    \A i \in ItemIds :
        SuccessAttempts(i) # {} =>
            content[i].exists /\ content[i].extracted_text.len > 0

C39_OneSuccessfulExtraction ==
    /\ C39_AtMostOneSuccess
    /\ C39_SuccessIffNoErrorCode
    /\ C39_SuccessHasText

\* C40: lazy user creation is idempotent.  For any interleaving of requests
\* carrying the same user id that was not seen before, no request fails in the
\* user-creation step, and once a request has passed it exactly one User row
\* with that id exists.
C40_LazyUserCreation ==
    \A c \in Clients :
        /\ auth[c].outcome # "IntegrityError"
        /\ auth[c].outcome = "returned" => users[auth[c].user_id] = 1
====
